---- MODULE Spec2Model ----
(***************************************************************************)
(* Souent backend: the Context Weave memory service (session cache and     *)
(* durable session log, user preferences, canon memory, context build) and *)
(* the token-bucket rate limiter.                                          *)
(*                                                                         *)
(* Sources: app/services/memory/memory_service.py, app/models/schemas.py,  *)
(* app/utils/rate_limiter.py, app/core/config.py, app/main.py.             *)
(***************************************************************************)
EXTENDS Integers, Sequences, FiniteSets, TLC

VARIABLES
    storage_type,   \* MemoryService.storage_type: "file" or "redis"
    up,             \* the application has started and serves requests
    sessions,       \* MemoryService._sessions: session id -> list of Message
    session_store,  \* durable session log: one file / one redis key per session id
    now,            \* the clock read by datetime.utcnow() and time.time()
    last,           \* the last call made on the service, with its outcome
    hist,           \* per session: the messages appended in this process to a
                    \* session that had no earlier log (history variable)
    canon_file,     \* the file at settings.CANON_MEMORY_PATH
    preferences,    \* durable preferences: one file / one redis key per user id
    buckets,        \* RateLimiterMiddleware._buckets: ip -> (tokens, last_refill)
    nc_sessions,    \* the cache and the durable session log as they would be had
    nc_session_store, \* build_memory_context never been called (history variables)
    RATE_LIMIT_REQUESTS,  \* settings.RATE_LIMIT_REQUESTS, the capacity of a bucket
    canon_writer,   \* an update_canon_memory call that has opened the canon file
                    \* for writing and not yet written and closed it
    peer_sessions,  \* MemoryService._sessions of a second worker process that
                    \* shares the backend
    pending         \* per worker: an add_message_to_session call that has updated
                    \* its cache and not yet finished the durable write

vars == <<storage_type, up, sessions, session_store, now, last, hist, canon_file,
          preferences, buckets, nc_sessions, nc_session_store,
          RATE_LIMIT_REQUESTS, canon_writer, peer_sessions, pending>>

\* the settings, read once from the environment when app.core.config is imported
config == <<storage_type, RATE_LIMIT_REQUESTS>>

\* what the session operations and the canon operations leave alone
notSession == <<canon_file, preferences, buckets>>
notCanon == <<sessions, session_store, hist, preferences, buckets,
              nc_sessions, nc_session_store>>
notLimiter == <<sessions, session_store, hist, canon_file, preferences,
                nc_sessions, nc_session_store>>

-----------------------------------------------------------------------------
(* Bounds of the model *)

MaxClock == 2       \* the clock takes the values 0..MaxClock
MaxLog == 2         \* at most this many messages are appended to one session
UsPerSec == 2       \* clock ticks per second (a datetime has 10^6; scaled down)
MaxTime == 6        \* the limiter is followed while time.time() is in 0..MaxTime
MaxStall == 4       \* the longest a process is held between two clock readings

\* settings.RATE_LIMIT_REQUESTS is an integer in 1..MaxRequests, and
\* settings.RATE_LIMIT_PERIOD is this many seconds; both default to 60 and are
\* set per deployment; small values here
MaxRequests == 2
RATE_LIMIT_PERIOD == 3

SessionIds == {"s1"}
Contents == {"a"}
UserIds == {"u1"}
ClientIps == {"10.0.0.1", "10.0.0.2"}

-----------------------------------------------------------------------------
(* schemas.py *)

MessageRole == {"user", "assistant", "system"}

\* datetime.utcnow(): the clock reading as a datetime (seconds, microseconds)
UtcNow(t) == [second |-> t \div UsPerSec, microsecond |-> t % UsPerSec]

\* Message(role=..., content=..., timestamp=...); metadata defaults to None
Message(role, content, timestamp) ==
    [role |-> role, content |-> content, timestamp |-> timestamp, metadata |-> "None"]

\* an isoformat() that writes whole seconds only
IsoFormat_Seconds(dt) == <<dt.second>>

\* datetime.isoformat(): the fraction is written only when microsecond # 0
IsoFormat(dt) ==
    IF dt.microsecond = 0 THEN <<dt.second>> ELSE <<dt.second, dt.microsecond>>

\* datetime.fromisoformat(): a missing fraction reads as microsecond 0
FromIsoFormat(str) ==
    [second |-> str[1], microsecond |-> IF Len(str) = 1 THEN 0 ELSE str[2]]

-----------------------------------------------------------------------------
(* The durable session log.  A file (or redis key) is absent, holds a JSON   *)
(* array of message objects, or holds text that json.load rejects (a file    *)
(* truncated by open(..., 'w') whose write then failed).                     *)

Absent == [kind |-> "absent"]
Corrupt == [kind |-> "corrupt"]
Data(d) == [kind |-> "data", data |-> d]

\* what the backend does during a write: it works, it fails before anything is
\* written, or it fails after open(..., 'w') has truncated the file
IoModes == {"ok", "fail_before", "fail_during"}

\* what the backend does during a read
ReadIo == {"ok", "read_fails"}

\* the messages_data comprehension of _save_session_file / _save_session_redis
MessagesData(msgs) ==
    [i \in 1..Len(msgs) |->
        [role |-> msgs[i].role, content |-> msgs[i].content,
         timestamp |-> IsoFormat(msgs[i].timestamp)]]

\* the Message(...) comprehension of _load_session_file / _load_session_redis
MessagesFromData(data) ==
    [i \in 1..Len(data) |->
        Message(data[i].role, data[i].content, FromIsoFormat(data[i].timestamp))]

\* _save_session_file: makedirs/open may fail (file untouched); open(..., 'w')
\* truncates, so a failure during json.dump leaves unparsable text
SaveSessionFile(cache, file, s, io) ==
    CASE io = "ok" -> [file |-> Data(MessagesData(IF s \in DOMAIN cache THEN cache[s] ELSE <<>>)),
                       raised |-> FALSE]
      [] io = "fail_before" -> [file |-> file, raised |-> TRUE]
      [] io = "fail_during" -> [file |-> Corrupt, raised |-> TRUE]

\* _save_session_redis: setex either stores the value or raises
SaveSessionRedis(cache, key, s, io) ==
    IF io = "ok"
    THEN [file |-> Data(MessagesData(IF s \in DOMAIN cache THEN cache[s] ELSE <<>>)),
          raised |-> FALSE]
    ELSE [file |-> key, raised |-> TRUE]

\* _load_session_file: a missing file gives []; everything after that is
\* inside try/except and gives [] on any error; a good load fills the cache
LoadSessionFile(cache, file, s, io) ==
    IF file = Absent
    THEN [sessions |-> cache, value |-> <<>>, raised |-> FALSE]
    ELSE IF io # "ok" \/ file = Corrupt
    THEN [sessions |-> cache, value |-> <<>>, raised |-> FALSE]
    ELSE LET messages == MessagesFromData(file.data)
         IN [sessions |-> (s :> messages) @@ cache, value |-> messages, raised |-> FALSE]

\* _load_session_redis: redis_client.get is outside the try, so a connection
\* error propagates; a missing key gives []; a parse error gives []
LoadSessionRedis(cache, key, s, io) ==
    IF io # "ok"
    THEN [sessions |-> cache, value |-> <<>>, raised |-> TRUE]
    ELSE IF key = Absent \/ key = Corrupt
    THEN [sessions |-> cache, value |-> <<>>, raised |-> FALSE]
    ELSE LET messages == MessagesFromData(key.data)
         IN [sessions |-> (s :> messages) @@ cache, value |-> messages, raised |-> FALSE]

-----------------------------------------------------------------------------
(* Session memory: the three public operations as functions of the state *)

\* add_message_to_session without the "if session_id not in self._sessions"
\* guard: the list is re-created on every call
AddMessageToSession_Reinit(stype, cache, store, s, role, content, t, io) ==
    LET message == Message(role, content, UtcNow(t))
        cache2 == (s :> <<message>>) @@ cache
        saved == IF stype = "file"
                 THEN SaveSessionFile(cache2, store[s], s, io)
                 ELSE SaveSessionRedis(cache2, store[s], s, io)
    IN [sessions |-> cache2,
        store |-> [store EXCEPT ![s] = saved.file],
        raised |-> saved.raised]

\* add_message_to_session: cache update, then persist; no try/except
AddMessageToSession(stype, cache, store, s, role, content, t, io) ==
    LET message == Message(role, content, UtcNow(t))
        cache1 == IF s \in DOMAIN cache THEN cache ELSE (s :> <<>>) @@ cache
        cache2 == [cache1 EXCEPT ![s] = Append(@, message)]
        saved == IF stype = "file"
                 THEN SaveSessionFile(cache2, store[s], s, io)
                 ELSE SaveSessionRedis(cache2, store[s], s, io)
    IN [sessions |-> cache2,
        store |-> [store EXCEPT ![s] = saved.file],
        raised |-> saved.raised]

\* get_session_history: cache first, then the backend
GetSessionHistory(stype, cache, store, s, io) ==
    IF s \in DOMAIN cache
    THEN [sessions |-> cache, value |-> cache[s], raised |-> FALSE]
    ELSE IF stype = "file"
    THEN LoadSessionFile(cache, store[s], s, io)
    ELSE LoadSessionRedis(cache, store[s], s, io)

\* clear_session that forgets the backend: only the cache entry is dropped
ClearSession_CacheOnly(stype, cache, store, s, io) ==
    [sessions |-> [x \in DOMAIN cache \ {s} |-> cache[x]], store |-> store,
     raised |-> FALSE]

\* clear_session: drop the cache entry, then remove the file / delete the key
ClearSession(stype, cache, store, s, io) ==
    LET cache1 == [x \in DOMAIN cache \ {s} |-> cache[x]]
    IN IF stype = "file" /\ store[s] = Absent
       THEN [sessions |-> cache1, store |-> store, raised |-> FALSE]
       ELSE IF io = "ok"
       THEN [sessions |-> cache1, store |-> [store EXCEPT ![s] = Absent], raised |-> FALSE]
       ELSE [sessions |-> cache1, store |-> store, raised |-> TRUE]

-----------------------------------------------------------------------------
(* Canon memory.  JSON values are tagged; a CanonMemory object holds one     *)
(* value per field, the canon file holds the JSON object last written.       *)

JBool(b) == [t |-> "bool", v |-> IF b THEN "true" ELSE "false"]
JStr(x) == [t |-> "str", v |-> x]
JInt(x) == [t |-> "int", v |-> x]
JDict(x) == [t |-> "dict", v |-> x]
JNull == [t |-> "null", v |-> "null"]
\* str(datetime), as json.dump(..., default=str) writes last_updated
JTime(dt) == [t |-> "time", v |-> IsoFormat(dt)]

AuthorizationTier == {"basic", "advisory", "admin_ready"}
ADMIN_READY == "admin_ready"

\* the fields of CanonMemory
CanonFields == {"system_knowledge", "model_info", "locked", "version", "last_updated"}

\* the four fields the specification names as updatable
UpdatableFields == {"system_knowledge", "model_info", "locked", "version"}

\* an attribute every pydantic model has that is not a field of CanonMemory
ModelAttrs == {"model_dump"}

\* CanonMemory field defaults
FieldDefault(f) ==
    CASE f = "system_knowledge" -> JDict("empty")
      [] f = "model_info" -> JDict("empty")
      [] f = "locked" -> JBool(TRUE)
      [] f = "version" -> JStr("1.0.0")
      [] f = "last_updated" -> JNull

\* pydantic validation of one field of CanonMemory(**data): dicts must be
\* dicts, version must be a string, locked takes a bool or the strings and
\* integers that read as one, last_updated a datetime string or null
FieldValid(f, x) ==
    CASE f \in {"system_knowledge", "model_info"} -> x.t = "dict"
      [] f = "locked" -> \/ x.t = "bool"
                         \/ x = JInt("1") \/ x = JInt("0")
                         \/ x = JStr("yes") \/ x = JStr("no")
      [] f = "version" -> x.t = "str"
      [] f = "last_updated" -> x.t \in {"time", "null"}

\* the value the validated field holds
FieldCoerce(f, x) ==
    IF f = "locked" /\ x.t # "bool"
    THEN JBool(x \in {JInt("1"), JStr("yes")})
    ELSE x

None == [present |-> FALSE]
Some(x) == [present |-> TRUE, value |-> x]

\* CanonMemory(**data): missing fields take their defaults, one invalid
\* field raises ValidationError
CanonMemory(data) ==
    IF \E f \in DOMAIN data : ~FieldValid(f, data[f])
    THEN None
    ELSE Some([f \in CanonFields |->
                 IF f \in DOMAIN data THEN FieldCoerce(f, data[f]) ELSE FieldDefault(f)])

\* a get_canon_memory that answers with a default record when none can be read
GetCanonMemory_Default(file, io) ==
    IF io # "ok" \/ file.kind # "data"
    THEN Some([f \in CanonFields |-> FieldDefault(f)])
    ELSE CanonMemory(file.data)

\* get_canon_memory: any error (missing file, read error, bad JSON, invalid
\* record) is caught and gives None
GetCanonMemory(file, io) ==
    IF io # "ok" \/ file.kind # "data" THEN None ELSE CanonMemory(file.data)

\* hasattr(canon, key)
HasAttr(key) == key \in CanonFields \cup ModelAttrs

\* the "Apply updates" loop: setattr on a field stores the value unvalidated;
\* setattr on a non-field attribute raises ValueError (no extra fields)
ApplyUpdates(canon, updates) ==
    IF \E k \in DOMAIN updates : HasAttr(k) /\ k \notin CanonFields
    THEN None
    ELSE Some([f \in CanonFields |->
                 IF f \in DOMAIN updates THEN updates[f] ELSE canon[f]])

\* the tier check of update_canon_memory left out
Authorized_Any(tier) == TRUE

\* "if authorization_tier != AuthorizationTier.ADMIN_READY: return False"
Authorized(tier) == tier = ADMIN_READY

\* the stamp left out: last_updated keeps the value that was read
Stamp_Keep(canon, t) == canon

\* canon.last_updated = datetime.utcnow()
Stamp(canon, t) == [canon EXCEPT !["last_updated"] = JTime(UtcNow(t))]

CanonIo == {"ok", "read_fails", "fail_before", "fail_during"}

\* update_canon_memory: tier check, read, apply, stamp, rewrite the file.
\* Every error after the tier check is caught and gives False; open(..., 'w')
\* truncates the file before json.dump writes it.
UpdateCanonMemory(file, updates, tier, t, io) ==
    IF ~Authorized(tier)
    THEN [file |-> file, result |-> FALSE]
    ELSE LET canon == GetCanonMemory(file, IF io = "read_fails" THEN io ELSE "ok")
         IN IF ~canon.present
            THEN [file |-> file, result |-> FALSE]
            ELSE LET applied == ApplyUpdates(canon.value, updates)
                 IN IF ~applied.present
                    THEN [file |-> file, result |-> FALSE]
                    ELSE CASE io = "fail_before" -> [file |-> file, result |-> FALSE]
                           [] io = "fail_during" -> [file |-> Corrupt, result |-> FALSE]
                           [] OTHER -> [file |-> Data(Stamp(applied.value, t)),
                                        result |-> TRUE]

\* the record main.py's startup_event writes when the canon file is missing
StartupCanon ==
    [f \in {"system_knowledge", "model_info", "locked"} |->
        CASE f = "system_knowledge" -> JDict("empty")
          [] f = "model_info" -> JDict("slm_a1")
          [] f = "locked" -> JBool(TRUE)]

\* the record init_db.py's init_canon_memory writes when the file is missing
InitDbCanon ==
    [f \in {"system_knowledge", "model_info", "locked", "version"} |->
        CASE f = "system_knowledge" -> JDict("velaplex")
          [] f = "model_info" -> JDict("slm_a1")
          [] f = "locked" -> JBool(TRUE)
          [] f = "version" -> JStr("1.0.0")]

\* a bootstrap that writes its record whether or not one exists
WriteAlways(file, data, io) ==
    CASE io = "ok" -> Data(data)
      [] io = "fail_before" -> file
      [] OTHER -> Corrupt

\* "if not os.path.exists(path): with open(path, 'w') ...: json.dump(...)"
WriteIfMissing(file, data, io) ==
    IF file # Absent THEN file
    ELSE CASE io = "ok" -> Data(data)
           [] io = "fail_before" -> file
           [] OTHER -> Corrupt

-----------------------------------------------------------------------------
(* User preferences: backend-direct, no cache *)

TonePreferences == {"concise", "detailed"}

\* UserPreferences(user_id=..., tone_preference=...), the other fields at
\* their defaults
UserPreferences(user_id, tone, updated_at) ==
    [user_id |-> user_id, tone_preference |-> tone, max_response_length |-> 500,
     enable_clarification_questions |-> TRUE, custom_settings |-> "None",
     updated_at |-> updated_at]

\* the names a preferences file or key can be written under: user_id is any
\* string, the empty one included
PreferenceKeys == UserIds \cup {""}

\* preferences.model_dump() written with default=str: updated_at becomes text
PreferencesData(p) == [p EXCEPT !.updated_at = IsoFormat(@)]

\* UserPreferences(**data): updated_at is parsed back into a datetime
PreferencesFromData(data) == [data EXCEPT !.updated_at = FromIsoFormat(@)]

\* save_user_preferences that writes the record as it was passed
SaveUserPreferences_NoStamp(stype, store, p, t, io) ==
    [store |-> [store EXCEPT ![p.user_id] = Data(PreferencesData(p))],
     raised |-> FALSE]

\* save_user_preferences: stamp updated_at, then write the whole record;
\* nothing is caught
SaveUserPreferences(stype, store, p, t, io) ==
    LET stamped == [p EXCEPT !.updated_at = UtcNow(t)]
        u == p.user_id
    IN CASE io = "ok" ->
              [store |-> [store EXCEPT ![u] = Data(PreferencesData(stamped))],
               raised |-> FALSE]
         [] io = "fail_during" /\ stype = "file" ->
              [store |-> [store EXCEPT ![u] = Corrupt], raised |-> TRUE]
         [] OTHER -> [store |-> store, raised |-> TRUE]

\* _load_preferences_file: a missing file gives None, any error gives None
LoadPreferencesFile(file, io) ==
    IF file.kind # "data" \/ io # "ok"
    THEN [value |-> None, raised |-> FALSE]
    ELSE [value |-> Some(PreferencesFromData(file.data)), raised |-> FALSE]

\* _load_preferences_redis: redis_client.get is outside the try
LoadPreferencesRedis(key, io) ==
    IF io # "ok"
    THEN [value |-> None, raised |-> TRUE]
    ELSE IF key.kind # "data"
    THEN [value |-> None, raised |-> FALSE]
    ELSE [value |-> Some(PreferencesFromData(key.data)), raised |-> FALSE]

\* get_user_preferences
GetUserPreferences(stype, store, u, io) ==
    IF stype = "file" THEN LoadPreferencesFile(store[u], io)
    ELSE LoadPreferencesRedis(store[u], io)

-----------------------------------------------------------------------------
(* Context Weave *)

\* the user_id argument: None, the empty string, or a user id
UserIdArgs == {"None", ""} \cup UserIds

\* "if user_id:"
Truthy(user_id) == user_id \notin {"None", ""}

MemoryContext(session_memory, user_preferences, canon_memory, tier) ==
    [session_memory |-> session_memory, user_preferences |-> user_preferences,
     canon_memory |-> canon_memory, authorization_tier |-> tier]

\* build_memory_context that keeps a recent window of the history (as the
\* generation side does) and fetches preferences whether or not a user id is given
BuildMemoryContext_Window(stype, cache, sstore, pstore, cfile, s, user_id, tier, ioS, ioP, ioC) ==
    LET session == GetSessionHistory(stype, cache, sstore, s, ioS)
        prefs == GetUserPreferences(stype, pstore,
                                    IF Truthy(user_id) THEN user_id ELSE CHOOSE u \in UserIds : TRUE,
                                    ioP)
        canon == GetCanonMemory(cfile, ioC)
        n == Len(session.value)
    IN IF session.raised \/ prefs.raised
       THEN [sessions |-> cache, raised |-> TRUE]
       ELSE [sessions |-> session.sessions, raised |-> FALSE,
             context |-> MemoryContext(IF n = 0 THEN <<>> ELSE <<session.value[n]>>,
                                       prefs.value, canon, tier)]

\* build_memory_context: the three fetches in order, nothing caught here, so
\* an exception of a fetch propagates; ioS, ioP and ioC are what the backend
\* does during the session, the preferences and the canon fetch
BuildMemoryContext(stype, cache, sstore, pstore, cfile, s, user_id, tier, ioS, ioP, ioC) ==
    LET session == GetSessionHistory(stype, cache, sstore, s, ioS)
        prefs == IF Truthy(user_id)
                 THEN GetUserPreferences(stype, pstore, user_id, ioP)
                 ELSE [value |-> None, raised |-> FALSE]
        canon == GetCanonMemory(cfile, ioC)
    IN IF session.raised
       THEN [sessions |-> cache, raised |-> TRUE]
       ELSE IF prefs.raised
       THEN [sessions |-> session.sessions, raised |-> TRUE]
       ELSE [sessions |-> session.sessions, raised |-> FALSE,
             context |-> MemoryContext(session.value, prefs.value, canon, tier)]

-----------------------------------------------------------------------------
(* State after the modules are imported, before the startup event *)

NoCall == [op |-> "none"]
NoWriter == [pc |-> "idle"]

\* the worker processes: 1 is the one whose cache is sessions, 2 the peer
Workers == {1, 2}
Idle == [pc |-> "idle"]
Untracked == [tracked |-> FALSE]
Tracked(log) == [tracked |-> TRUE, log |-> log]

Init ==
    /\ storage_type \in {"file", "redis"}
    /\ RATE_LIMIT_REQUESTS = MaxRequests
    /\ canon_writer = NoWriter
    /\ peer_sessions = <<>>
    /\ pending = [w \in Workers |-> Idle]
    /\ up = FALSE
    /\ sessions = <<>>
    /\ session_store = [s \in SessionIds |-> Absent]
    /\ now = 0
    /\ last = NoCall
    /\ hist = [s \in SessionIds |-> Untracked]
    /\ canon_file = Absent
    /\ preferences = [u \in PreferenceKeys |-> Absent]
    /\ buckets = <<>>
    /\ nc_sessions = <<>>
    /\ nc_session_store = [s \in SessionIds |-> Absent]

\* a process starts (for the first time, or after the previous one stopped):
\* the services are constructed with empty in-memory state and startup_event
\* runs; if it raises, the application does not come up
Startup(io) ==
    /\ up' = (storage_type = "file" /\ canon_file = Absent => io = "ok")
    /\ canon_file' = IF storage_type = "file"
                     THEN WriteIfMissing(canon_file, StartupCanon, io)
                     ELSE canon_file
    /\ sessions' = <<>>
    /\ nc_sessions' = <<>>
    /\ buckets' = <<>>
    /\ hist' = [s \in SessionIds |-> Untracked]
    /\ last' = NoCall
    /\ UNCHANGED <<config, canon_writer, peer_sessions, pending, session_store, nc_session_store, now, preferences>>

\* python -m app.core.init_db is run
InitDb(io) ==
    /\ canon_file = Absent
    /\ canon_file' = WriteIfMissing(canon_file, InitDbCanon, io)
    /\ last' = NoCall
    /\ UNCHANGED <<config, canon_writer, peer_sessions, pending, up, now, notCanon>>

\* time passes
Tick ==
    /\ now < MaxClock
    /\ now' = now + 1
    /\ UNCHANGED <<config, canon_writer, peer_sessions, pending, up, sessions, session_store, last, hist, notSession,
                   nc_sessions, nc_session_store>>

-----------------------------------------------------------------------------
(* Actions of the session store *)

\* io modes the backend can produce: a redis command has no partial effect
IoOf(stype) == IF stype = "file" THEN IoModes ELSE {"ok", "fail_before"}

LogLen(s) == IF s \in DOMAIN sessions THEN Len(sessions[s]) ELSE 0

AddMessage(s, role, content, io) ==
    /\ up
    /\ LogLen(s) < MaxLog
    /\ LET r == AddMessageToSession(storage_type, sessions, session_store, s,
                                    role, content, now, io)
           message == Message(role, content, UtcNow(now))
       IN /\ sessions' = r.sessions
          /\ session_store' = r.store
          /\ last' = [op |-> "append", sid |-> s, raised |-> r.raised]
          /\ hist' = [hist EXCEPT ![s] =
                        IF @.tracked THEN Tracked(Append(@.log, message))
                        ELSE IF s \notin DOMAIN sessions /\ session_store[s] = Absent
                        THEN Tracked(<<message>>)
                        ELSE @]
    /\ LET nc == AddMessageToSession(storage_type, nc_sessions, nc_session_store, s,
                                     role, content, now, io)
       IN nc_sessions' = nc.sessions /\ nc_session_store' = nc.store
    /\ UNCHANGED <<config, canon_writer, peer_sessions, pending, up, now, notSession>>

GetHistory(s, io) ==
    /\ up
    /\ LET r == GetSessionHistory(storage_type, sessions, session_store, s, io)
       IN /\ sessions' = r.sessions
          /\ last' = [op |-> "get", sid |-> s, raised |-> r.raised, value |-> r.value]
    /\ nc_sessions' = GetSessionHistory(storage_type, nc_sessions, nc_session_store,
                                        s, io).sessions
    /\ UNCHANGED <<config, canon_writer, peer_sessions, pending, up, session_store, nc_session_store, now, hist,
                   notSession>>

Clear(s, io) ==
    /\ up
    /\ LET r == ClearSession(storage_type, sessions, session_store, s, io)
       IN /\ sessions' = r.sessions
          /\ session_store' = r.store
          /\ last' = [op |-> "clear", sid |-> s, raised |-> r.raised,
                       had_log |-> (s \in DOMAIN sessions /\ session_store[s] # Absent)]
    /\ hist' = [hist EXCEPT ![s] = Untracked]
    /\ LET nc == ClearSession(storage_type, nc_sessions, nc_session_store, s, io)
       IN nc_sessions' = nc.sessions /\ nc_session_store' = nc.store
    /\ UNCHANGED <<config, canon_writer, peer_sessions, pending, up, now, notSession>>

\* the 3600 s TTL that setex puts on a session key runs out
ExpireSession(s) ==
    /\ storage_type = "redis"
    /\ session_store[s] # Absent \/ nc_session_store[s] # Absent
    /\ session_store' = [session_store EXCEPT ![s] = Absent]
    /\ nc_session_store' = [nc_session_store EXCEPT ![s] = Absent]
    /\ last' = NoCall
    /\ UNCHANGED <<config, canon_writer, peer_sessions, pending, up, sessions, nc_sessions, now, hist, notSession>>

SessionNext ==
    \/ \E s \in SessionIds, role \in MessageRole, content \in Contents,
          io \in IoOf(storage_type) : AddMessage(s, role, content, io)
    \/ \E s \in SessionIds, io \in ReadIo : GetHistory(s, io)
    \/ \E s \in SessionIds, io \in IoOf(storage_type) : Clear(s, io)
    \/ \E s \in SessionIds : ExpireSession(s)
    \/ Startup("ok")
    \/ Tick

SpecSession == Init /\ [][SessionNext]_vars

-----------------------------------------------------------------------------
(* Two worker processes appending to one session.  Inside one process the    *)
(* handlers are coroutines that never await inside add_message_to_session,   *)
(* so calls of one process do not interleave; calls of two processes do.     *)

CacheOf(w) == IF w = 1 THEN sessions ELSE peer_sessions

\* what each worker sends, so that the two appends can be told apart
WorkerContent(w) == IF w = 1 THEN "a" ELSE "b"

\* add_message_to_session up to the open(filepath, 'w') of _save_session_file
\* (file) or up to the setex of _save_session_redis (redis): the cache is
\* updated, messages_data is built, and the file is truncated
BeginAppend(w, s) ==
    /\ up
    /\ pending[w] = Idle
    /\ (s \in DOMAIN CacheOf(w) => Len(CacheOf(w)[s]) < MaxLog)
    /\ LET cache == CacheOf(w)
           message == Message("user", WorkerContent(w), UtcNow(now))
           cache1 == IF s \in DOMAIN cache THEN cache ELSE (s :> <<>>) @@ cache
           cache2 == [cache1 EXCEPT ![s] = Append(@, message)]
           racing == {x \in Workers \ {w} : pending[x].pc = "writing" /\ pending[x].sid = s}
       IN /\ sessions' = IF w = 1 THEN cache2 ELSE sessions
          /\ peer_sessions' = IF w = 2 THEN cache2 ELSE peer_sessions
          /\ pending' = [x \in Workers |->
                           IF x = w
                           THEN [pc |-> "writing", sid |-> s,
                                 data |-> MessagesData(cache2[s]),
                                 overlapped |-> racing # {}, clobbered_len |-> 0]
                           ELSE IF x \in racing
                           THEN [pending[x] EXCEPT !.overlapped = TRUE]
                           ELSE pending[x]]
    /\ session_store' = IF storage_type = "file"
                        THEN [session_store EXCEPT ![s] = Corrupt]
                        ELSE session_store
    /\ last' = [op |-> "append_begun", sid |-> s]
    /\ UNCHANGED <<config, canon_writer, up, now, hist, notSession,
                   nc_sessions, nc_session_store>>

\* what the write of a worker leaves: its own text; or, when another worker
\* has written the file since this one opened it and wrote no less, this
\* worker's text followed by the rest of the other's, which does not parse
WriteOutcomes(p) ==
    IF p.clobbered_len = 0 \/ p.clobbered_len < Len(p.data) THEN {"whole"}
    ELSE IF p.clobbered_len = Len(p.data) THEN {"whole", "mixed"}
    ELSE {"mixed"}

\* json.dump and close (file), or setex (redis)
FinishAppend(w, outcome) ==
    /\ pending[w].pc = "writing"
    /\ outcome \in WriteOutcomes(pending[w])
    /\ LET s == pending[w].sid
       IN /\ session_store' = [session_store EXCEPT ![s] =
                                 IF outcome = "whole" THEN Data(pending[w].data)
                                 ELSE Corrupt]
          /\ pending' = [x \in Workers |->
                           IF x = w THEN Idle
                           ELSE IF /\ pending[x].pc = "writing" /\ pending[x].sid = s
                                   /\ storage_type = "file" /\ outcome = "whole"
                           THEN [pending[x] EXCEPT !.clobbered_len = Len(pending[w].data)]
                           ELSE pending[x]]
          /\ last' = [op |-> "race_append", sid |-> s, worker |-> w,
                      overlapped |-> pending[w].overlapped]
    /\ UNCHANGED <<config, canon_writer, up, now, sessions, peer_sessions, hist,
                   notSession, nc_sessions, nc_session_store>>

AllIdle == \A w \in Workers : pending[w] = Idle

SessionRaceNext ==
    \/ AllIdle /\ Startup("ok")
    \/ Tick
    \/ \E w \in Workers, s \in SessionIds : BeginAppend(w, s)
    \/ \E w \in Workers, outcome \in {"whole", "mixed"} : FinishAppend(w, outcome)

SpecSessionRace == Init /\ [][SessionRaceNext]_vars

-----------------------------------------------------------------------------
(* Actions of the canon memory *)

UpdateValues == {JBool(FALSE), JStr("2.0.0"), JInt("1"), JDict("d")}
UpdateKeys == CanonFields \cup ModelAttrs \cup {"nickname"}

\* the updates tried beside the other operations
GuardUpdates == {("version" :> JStr("2.0.0")), ("locked" :> JBool(FALSE))}

\* the update mappings tried: one key, or a recognized key with another key
Updates ==
    {(k :> x) : k \in UpdateKeys, x \in UpdateValues}
    \cup {("version" :> JStr("2.0.0")) @@ (j :> JStr("x")) :
            j \in UpdateKeys \ UpdatableFields}

UpdateCanon(updates, tier, io) ==
    /\ up
    /\ LET r == UpdateCanonMemory(canon_file, updates, tier, now, io)
       IN /\ canon_file' = r.file
          /\ last' = [op |-> "update", tier |-> tier, result |-> r.result]
    /\ UNCHANGED <<config, canon_writer, peer_sessions, pending, up, now, notCanon>>

GetCanon(io) ==
    /\ up
    /\ last' = [op |-> "get_canon", value |-> GetCanonMemory(canon_file, io)]
    /\ UNCHANGED <<config, canon_writer, peer_sessions, pending, up, now, canon_file, notCanon>>

\* update_canon_memory by an admin, up to the open(..., 'w') of line 303: the
\* record is read, changed and stamped, and the file is truncated
BeginUpdate(updates) ==
    /\ up
    /\ canon_writer = NoWriter
    /\ LET canon == GetCanonMemory(canon_file, "ok")
           applied == ApplyUpdates(canon.value, updates)
       IN /\ canon.present
          /\ applied.present
          /\ canon_writer' = [pc |-> "writing", before |-> canon.value,
                              after |-> Stamp(applied.value, now)]
    /\ canon_file' = Corrupt
    /\ last' = [op |-> "update_begun"]
    /\ UNCHANGED <<config, peer_sessions, pending, up, now, notCanon>>

\* json.dump writes the record and the with block closes the file
FinishUpdate ==
    /\ canon_writer.pc = "writing"
    /\ canon_file' = Data(canon_writer.after)
    /\ canon_writer' = NoWriter
    /\ last' = [op |-> "update", tier |-> ADMIN_READY, result |-> TRUE]
    /\ UNCHANGED <<config, peer_sessions, pending, up, now, notCanon>>

\* readers run while a writer is between the two steps
CanonRaceNext ==
    \/ \E u \in Updates : BeginUpdate(u)
    \/ FinishUpdate
    \/ \E io \in {"ok", "read_fails"} : GetCanon(io)
    \/ Startup("ok")
    \/ InitDb("ok")
    \/ Tick

SpecCanonRace == Init /\ [][CanonRaceNext]_vars

CanonNext ==
    \/ \E u \in Updates, tier \in AuthorizationTier, io \in CanonIo :
          /\ (tier # ADMIN_READY => io = "ok")
          /\ UpdateCanon(u, tier, io)
    \/ \E io \in {"ok", "read_fails"} : GetCanon(io)
    \/ \E io \in IoModes : Startup(io)
    \/ \E io \in IoModes : InitDb(io)
    \/ Tick

SpecCanon == Init /\ [][CanonNext]_vars

-----------------------------------------------------------------------------
(* Actions of the preferences and of the context weave *)

SavePreferences(u, tone, io) ==
    /\ up
    /\ LET r == SaveUserPreferences(storage_type, preferences,
                                    UserPreferences(u, tone, UtcNow(now)), now, io)
       IN /\ preferences' = r.store
          /\ last' = [op |-> "put", user_id |-> u, at |-> now, raised |-> r.raised]
    /\ UNCHANGED <<config, canon_writer, peer_sessions, pending, up, now, sessions, session_store, hist, canon_file,
                   buckets, nc_sessions, nc_session_store>>

GetPreferences(u, io) ==
    /\ up
    /\ last' = [op |-> "get_preferences", user_id |-> u,
                value |-> GetUserPreferences(storage_type, preferences, u, io)]
    /\ UNCHANGED <<config, canon_writer, peer_sessions, pending, up, now, sessions, session_store, hist, canon_file,
                   preferences, buckets, nc_sessions, nc_session_store>>

PreferencesNext ==
    \/ Startup("ok")
    \/ Tick
    \/ \E u \in PreferenceKeys, tone \in TonePreferences, io \in IoOf(storage_type) :
          SavePreferences(u, tone, io)
    \/ \E u \in PreferenceKeys, io \in ReadIo : GetPreferences(u, io)

SpecPreferences == Init /\ [][PreferencesNext]_vars

\* the length of the text json.dump writes for a record, as far as it varies:
\* the tone and the fraction of updated_at
RecordLen(data) ==
    (IF data.tone_preference = "concise" THEN 7 ELSE 8) + Len(data.updated_at)

\* save_user_preferences of worker w up to the open(filepath, 'w') of
\* _save_preferences_file (file) or up to the set of _save_preferences_redis
BeginPut(w, u, tone) ==
    /\ up
    /\ pending[w] = Idle
    /\ LET stamped == UserPreferences(u, tone, UtcNow(now))
       IN pending' = [pending EXCEPT ![w] =
                        [pc |-> "putting", user_id |-> u,
                         data |-> PreferencesData(stamped), clobbered_len |-> 0]]
    /\ preferences' = IF storage_type = "file"
                      THEN [preferences EXCEPT ![u] = Corrupt]
                      ELSE preferences
    /\ last' = [op |-> "put_begun", user_id |-> u]
    /\ UNCHANGED <<config, canon_writer, peer_sessions, up, now, sessions,
                   session_store, hist, canon_file, buckets, nc_sessions,
                   nc_session_store>>

\* json.dump and close (file), or set (redis).  A worker that wrote the file
\* after this one opened it, and wrote more, leaves its tail behind this
\* worker's text
FinishPut(w) ==
    /\ pending[w].pc = "putting"
    /\ LET u == pending[w].user_id
           mixed == pending[w].clobbered_len > RecordLen(pending[w].data)
       IN /\ preferences' = [preferences EXCEPT ![u] =
                               IF mixed THEN Corrupt ELSE Data(pending[w].data)]
          /\ pending' = [x \in Workers |->
                           IF x = w THEN Idle
                           ELSE IF /\ pending[x].pc = "putting" /\ pending[x].user_id = u
                                   /\ storage_type = "file" /\ ~mixed
                           THEN [pending[x] EXCEPT
                                    !.clobbered_len = RecordLen(pending[w].data)]
                           ELSE pending[x]]
          /\ last' = [op |-> "race_put", user_id |-> u, worker |-> w]
    /\ UNCHANGED <<config, canon_writer, peer_sessions, up, now, sessions,
                   session_store, hist, canon_file, buckets, nc_sessions,
                   nc_session_store>>

PreferencesRaceNext ==
    \/ AllIdle /\ Startup("ok")
    \/ Tick
    \/ \E w \in Workers, u \in UserIds, tone \in TonePreferences : BeginPut(w, u, tone)
    \/ \E w \in Workers : FinishPut(w)

SpecPreferencesRace == Init /\ [][PreferencesRaceNext]_vars

\* build_memory_context; the world without it (nc_*) does not move
Compose(s, user_id, tier, ioS, ioP, ioC) ==
    /\ up
    /\ LET r == BuildMemoryContext(storage_type, sessions, session_store, preferences,
                                   canon_file, s, user_id, tier, ioS, ioP, ioC)
       IN /\ sessions' = r.sessions
          /\ last' = IF r.raised
                     THEN [op |-> "compose", user_id |-> user_id, raised |-> TRUE]
                     ELSE [op |-> "compose", user_id |-> user_id, raised |-> FALSE,
                           context |-> r.context]
    /\ UNCHANGED <<config, canon_writer, peer_sessions, pending, up, now, session_store, hist, canon_file, preferences,
                   buckets, nc_sessions, nc_session_store>>

\* the failures tried as steps: none, or one of the three fetches
ComposeIo ==
    {<<"ok", "ok", "ok">>, <<"read_fails", "ok", "ok">>, <<"ok", "read_fails", "ok">>,
     <<"ok", "ok", "read_fails">>}

\* the clock stands still here: timestamps play no part in the weave
ComposeNext ==
    \/ \E io \in {"ok", "fail_during"} : Startup(io)
    \/ InitDb("ok")
    \/ \E s \in SessionIds, role \in {"user", "assistant"}, content \in Contents :
          AddMessage(s, role, content, "ok")
    \/ \E s \in SessionIds : ExpireSession(s)
    \/ \E u \in UserIds, tone \in TonePreferences, io \in IoOf(storage_type) :
          SavePreferences(u, tone, io)
    \/ \E s \in SessionIds, user_id \in UserIdArgs, tier \in AuthorizationTier,
          io \in ComposeIo : Compose(s, user_id, tier, io[1], io[2], io[3])

SpecCompose == Init /\ [][ComposeNext]_vars

\* every kind of operation beside the canon record: reads, composes, updates
\* of each tier, session and preference writes, restarts and init_db runs
\* (the clock stands still: no step here depends on the time of day)
CanonGuardNext ==
    \/ \E io \in IoModes : Startup(io)
    \/ \E io \in IoModes : InitDb(io)
    \/ \E u \in GuardUpdates, tier \in AuthorizationTier : UpdateCanon(u, tier, "ok")
    \/ GetCanon("ok")
    \/ \E s \in SessionIds, tier \in AuthorizationTier :
          Compose(s, "u1", tier, "ok", "ok", "ok")
    \/ \E s \in SessionIds, content \in Contents : AddMessage(s, "user", content, "ok")
    \/ \E s \in SessionIds : GetHistory(s, "ok")
    \/ \E s \in SessionIds : Clear(s, "ok")
    \/ \E u \in UserIds, tone \in TonePreferences : SavePreferences(u, tone, "ok")
    \/ \E u \in UserIds : GetPreferences(u, "ok")

SpecCanonGuard == Init /\ [][CanonGuardNext]_vars

-----------------------------------------------------------------------------
(* Rate limiter.  Token counts are floats in the code; here they are exact, *)
(* counted in units of 1/RATE_LIMIT_PERIOD token, so that the refill of one  *)
(* second, RATE_LIMIT_REQUESTS/RATE_LIMIT_PERIOD token, is a whole number.   *)

\* 1.0 token
OneToken == RATE_LIMIT_PERIOD

\* self.max_tokens = settings.RATE_LIMIT_REQUESTS
max_tokens == RATE_LIMIT_REQUESTS * OneToken

\* self.refill_rate = RATE_LIMIT_REQUESTS / RATE_LIMIT_PERIOD tokens a second
refill_rate == RATE_LIMIT_REQUESTS

Min(a, b) == IF a <= b THEN a ELSE b

\* self._buckets[client_ip]: a missing key gets the defaultdict's value,
\* (float(RATE_LIMIT_REQUESTS), time.time()), the clock being read then
BucketOf(bkts, ip, t_created) ==
    IF ip \in DOMAIN bkts THEN bkts[ip] ELSE <<max_tokens, t_created>>

\* _check_rate_limit keeping one bucket for all identities
CheckRateLimit_Shared(bkts, ip, current_time, t_created) ==
    LET bucket == BucketOf(bkts, ip, t_created)
        tokens == Min(max_tokens, bucket[1] + (current_time - bucket[2]) * refill_rate)
        all == DOMAIN bkts \cup {ip}
    IN IF tokens >= OneToken
       THEN [buckets |-> [i \in all |-> <<tokens - OneToken, current_time>>],
             allowed |-> TRUE, remaining |-> tokens - OneToken]
       ELSE [buckets |-> [i \in all |-> <<tokens, bucket[2]>>],
             allowed |-> FALSE, remaining |-> tokens]

\* _check_rate_limit with "tokens > 1.0"
CheckRateLimit_Strict(bkts, ip, current_time, t_created) ==
    LET bucket == BucketOf(bkts, ip, t_created)
        tokens == Min(max_tokens, bucket[1] + (current_time - bucket[2]) * refill_rate)
    IN IF tokens > OneToken
       THEN [buckets |-> (ip :> <<tokens - OneToken, current_time>>) @@ bkts,
             allowed |-> TRUE, remaining |-> tokens - OneToken]
       ELSE [buckets |-> (ip :> <<tokens, bucket[2]>>) @@ bkts,
             allowed |-> FALSE, remaining |-> tokens]

\* _check_rate_limit: current_time is the reading of line 78, t_created the
\* reading the defaultdict takes if the bucket is created by this call
CheckRateLimit(bkts, ip, current_time, t_created) ==
    LET bucket == BucketOf(bkts, ip, t_created)
        last_refill == bucket[2]
        time_elapsed == current_time - last_refill
        tokens_to_add == time_elapsed * refill_rate
        tokens == Min(max_tokens, bucket[1] + tokens_to_add)
    IN IF tokens >= OneToken
       THEN [buckets |-> (ip :> <<tokens - OneToken, current_time>>) @@ bkts,
             allowed |-> TRUE, remaining |-> tokens - OneToken]
       ELSE [buckets |-> (ip :> <<tokens, last_refill>>) @@ bkts,
             allowed |-> FALSE, remaining |-> tokens]

\* the readings the clock can give when it is read again within one call:
\* none earlier than the first
Stalls(ip) ==
    IF ip \in DOMAIN buckets THEN {0} ELSE {d \in 0..MaxStall : now + d <= MaxTime}

\* one call of _check_rate_limit
Allow(ip, stall) ==
    /\ up
    /\ LET r == CheckRateLimit(buckets, ip, now, now + stall)
       IN /\ buckets' = r.buckets
          /\ last' = [op |-> "allow", ip |-> ip, allowed |-> r.allowed,
                      remaining |-> r.remaining, at |-> now,
                      first |-> ip \notin DOMAIN buckets]
    /\ now' = now + stall
    /\ UNCHANGED <<config, canon_writer, peer_sessions, pending, up, notLimiter>>

\* the paths dispatch lets through without a check
ExemptPaths == {"/", "/health", "/api/v1/system/health"}

\* a path that is rate limited
ChatPath == "/api/v1/chat/message"

NoContent == [error |-> "none"]
NoHeaders == [limit |-> -1, remaining |-> -1]

\* dispatch that answers 429 and still calls call_next
Dispatch_PassDenied(bkts, path, client_ip, current_time, t_created) ==
    LET r == CheckRateLimit(bkts, client_ip, current_time, t_created)
    IN [buckets |-> r.buckets, downstream |-> TRUE,
        status_code |-> IF r.allowed THEN 200 ELSE 429,
        content |-> [error |-> "Rate limit exceeded",
                     detail |-> <<RATE_LIMIT_REQUESTS, RATE_LIMIT_PERIOD>>,
                     retry_after |-> RATE_LIMIT_PERIOD],
        headers |-> NoHeaders]

\* dispatch without the list of exempt paths
Dispatch_NoExempt(bkts, path, client_ip, current_time, t_created) ==
    LET r == CheckRateLimit(bkts, client_ip, current_time, t_created)
    IN [buckets |-> r.buckets, downstream |-> r.allowed,
        status_code |-> IF r.allowed THEN 200 ELSE 429,
        content |-> NoContent, headers |-> NoHeaders]

\* dispatch, up to the call of call_next: the buckets after it, whether the
\* request goes downstream, and the 429 answer or the headers put on the
\* downstream response; int(remaining) truncates
Dispatch(bkts, path, client_ip, current_time, t_created) ==
    IF path \in ExemptPaths
    THEN [buckets |-> bkts, downstream |-> TRUE, status_code |-> 200,
          content |-> NoContent, headers |-> NoHeaders]
    ELSE LET r == CheckRateLimit(bkts, client_ip, current_time, t_created)
         IN IF ~r.allowed
            THEN [buckets |-> r.buckets, downstream |-> FALSE, status_code |-> 429,
                  content |-> [error |-> "Rate limit exceeded",
                               detail |-> <<RATE_LIMIT_REQUESTS, RATE_LIMIT_PERIOD>>,
                               retry_after |-> RATE_LIMIT_PERIOD],
                  headers |-> NoHeaders]
            ELSE [buckets |-> r.buckets, downstream |-> TRUE, status_code |-> 200,
                  content |-> NoContent,
                  headers |-> [limit |-> RATE_LIMIT_REQUESTS,
                               remaining |-> r.remaining \div OneToken]]

\* a request for a path whose handler touches no store
Probe(path, ip, stall) ==
    /\ up
    /\ LET d == Dispatch(buckets, path, ip, now, now + stall)
       IN /\ buckets' = d.buckets
          /\ last' = [op |-> "probe", path |-> path, ip |-> ip,
                      downstream |-> d.downstream, status_code |-> d.status_code,
                      content |-> d.content, before |-> buckets]
    /\ now' = now + stall
    /\ UNCHANGED <<config, canon_writer, peer_sessions, pending, up, notLimiter>>

\* the deployment sets RATE_LIMIT_REQUESTS in the environment
Configure(c) ==
    /\ ~up
    /\ RATE_LIMIT_REQUESTS' = c
    /\ UNCHANGED <<storage_type, canon_writer, peer_sessions, pending, up, now, last,
                   buckets, notLimiter>>

\* a second passes
Wait ==
    /\ now < MaxTime
    /\ now' = now + 1
    /\ UNCHANGED <<config, canon_writer, peer_sessions, pending, up, last, buckets, notLimiter>>

LimiterNext ==
    \/ Startup("ok")
    \/ \E c \in 1..MaxRequests : Configure(c)
    \/ \E ip \in ClientIps : \E stall \in Stalls(ip) : Allow(ip, stall)
    \/ \E ip \in ClientIps : \E path \in ExemptPaths : Probe(path, ip, 0)
    \/ Wait

SpecLimiter == Init /\ [][LimiterNext]_vars

-----------------------------------------------------------------------------
(* Garbage collection of the bucket table *)

\* "settings.RATE_LIMIT_PERIOD * 10"
CleanupPeriods == 10

\* cleanup_old_entries that also drops a bucket exactly at the threshold
CleanupOldEntries_Inclusive(bkts, current_time) ==
    LET threshold == current_time - RATE_LIMIT_PERIOD * CleanupPeriods
        old_ips == {ip \in DOMAIN bkts : bkts[ip][2] <= threshold}
    IN [ip \in DOMAIN bkts \ old_ips |-> bkts[ip]]

\* cleanup_old_entries: delete the buckets whose last_refill is before the
\* threshold
CleanupOldEntries(bkts, current_time) ==
    LET threshold == current_time - RATE_LIMIT_PERIOD * CleanupPeriods
        old_ips == {ip \in DOMAIN bkts : bkts[ip][2] < threshold}
    IN [ip \in DOMAIN bkts \ old_ips |-> bkts[ip]]

\* a call of cleanup_old_entries (nothing in the application makes one)
Cleanup ==
    /\ up
    /\ buckets' = CleanupOldEntries(buckets, now)
    /\ last' = [op |-> "cleanup", before |-> buckets]
    /\ UNCHANGED <<config, canon_writer, peer_sessions, pending, up, now, notLimiter>>

\* ten periods pass at once
LongWait ==
    /\ now <= MaxTime
    /\ now' = now + RATE_LIMIT_PERIOD * CleanupPeriods
    /\ UNCHANGED <<config, canon_writer, peer_sessions, pending, up, last, buckets,
                   notLimiter>>

\* the service as it runs: requests and the passing of time; dispatch never
\* calls cleanup_old_entries, and nothing else does
IdleNext ==
    \/ Startup("ok")
    \/ \E ip \in ClientIps : Allow(ip, 0)
    \/ Wait
    \/ LongWait

\* the service keeps running: time passes; nothing obliges a client to send
\* a request or the process to restart
SpecIdle ==
    /\ Init /\ [][IdleNext]_vars
    /\ WF_vars(Wait)
    /\ WF_vars(LongWait)

\* cleanup_old_entries applied to the tables the limiter can hold
CleanupNext ==
    \/ Startup("ok")
    \/ \E ip \in ClientIps : Allow(ip, 0)
    \/ Wait
    \/ LongWait
    \/ Cleanup

SpecCleanup == Init /\ [][CleanupNext]_vars

-----------------------------------------------------------------------------
(* Ingress: the middleware in front of the route handlers.  The limiter is   *)
(* the middleware added last, so it runs first.  The history variables of    *)
(* the session and weave claims are not followed here.                       *)

PreferencesPath == "/api/v1/memory/preferences"
CanonPath == "/api/v1/memory/canon"

\* what generate_response returns: a reply, or its own error text
Replies == {"reply", "error text"}

\* send_message: append the user turn, compose, generate, append the
\* assistant turn; any exception becomes a 500
SendMessage(stype, cache, store, pstore, cfile, s, user_id, tier, content, reply, t, io) ==
    LET a1 == AddMessageToSession(stype, cache, store, s, "user", content, t, io)
        c == BuildMemoryContext(stype, a1.sessions, a1.store, pstore, cfile, s,
                                user_id, tier, "ok", "ok", "ok")
        a2 == AddMessageToSession(stype, c.sessions, a1.store, s, "assistant", reply, t, io)
    IN IF a1.raised
       THEN [sessions |-> a1.sessions, store |-> a1.store, status_code |-> 500,
             context |-> None]
       ELSE IF c.raised
       THEN [sessions |-> c.sessions, store |-> a1.store, status_code |-> 500,
             context |-> None]
       ELSE [sessions |-> a2.sessions, store |-> a2.store,
             status_code |-> IF a2.raised THEN 500 ELSE 200,
             context |-> Some(c.context)]

\* the answer recorded for a request: the limiter's 429, or the handler's status
Answered(path, ip, d, status_code) ==
    [op |-> "request", path |-> path, ip |-> ip, downstream |-> d.downstream,
     status_code |-> IF d.status_code = 429 THEN 429 ELSE status_code,
     content |-> d.content]

\* POST /api/v1/chat/message
ChatRequest(ip, s, user_id, content, reply, io) ==
    /\ up
    /\ LogLen(s) + 2 <= MaxLog
    /\ LET d == Dispatch(buckets, ChatPath, ip, now, now)
           r == SendMessage(storage_type, sessions, session_store, preferences,
                            canon_file, s, user_id, "basic", content, reply, now, io)
       IN /\ buckets' = d.buckets
          /\ sessions' = IF d.downstream THEN r.sessions ELSE sessions
          /\ session_store' = IF d.downstream THEN r.store ELSE session_store
          /\ last' = Answered(ChatPath, ip, d, r.status_code)
    /\ UNCHANGED <<config, canon_writer, peer_sessions, pending, up, now, hist, canon_file, preferences,
                   nc_sessions, nc_session_store>>

\* PUT /api/v1/memory/preferences
PreferencesRequest(ip, u, tone, io) ==
    /\ up
    /\ LET d == Dispatch(buckets, PreferencesPath, ip, now, now)
           r == SaveUserPreferences(storage_type, preferences,
                                    UserPreferences(u, tone, UtcNow(now)), now, io)
       IN /\ buckets' = d.buckets
          /\ preferences' = IF d.downstream THEN r.store ELSE preferences
          /\ last' = Answered(PreferencesPath, ip, d, IF r.raised THEN 500 ELSE 200)
    /\ UNCHANGED <<config, canon_writer, peer_sessions, pending, up, now, sessions, session_store, hist, canon_file,
                   nc_sessions, nc_session_store>>

\* PUT /api/v1/memory/canon: 403 without the admin key, else the update
CanonRequest(ip, admin_key, updates, io) ==
    /\ up
    /\ LET d == Dispatch(buckets, CanonPath, ip, now, now)
           r == UpdateCanonMemory(canon_file, updates, ADMIN_READY, now, io)
       IN /\ buckets' = d.buckets
          /\ canon_file' = IF d.downstream /\ admin_key THEN r.file ELSE canon_file
          /\ last' = Answered(CanonPath, ip, d,
                              IF ~admin_key THEN 403 ELSE IF r.result THEN 200 ELSE 500)
    /\ UNCHANGED <<config, canon_writer, peer_sessions, pending, up, now, sessions, session_store, hist, preferences,
                   nc_sessions, nc_session_store>>

\* the requests tried come from one address
IngressNext ==
    \/ Startup("ok")
    \/ InitDb("ok")
    \/ Tick
    \/ \E s \in SessionIds, content \in Contents :
          ChatRequest("10.0.0.1", s, "None", content, "reply", "ok")
    \/ \E u \in UserIds, tone \in TonePreferences :
          PreferencesRequest("10.0.0.1", u, tone, "ok")
    \/ \E admin_key \in BOOLEAN :
          CanonRequest("10.0.0.1", admin_key, "locked" :> JBool(FALSE), "ok")

SpecIngress == Init /\ [][IngressNext]_vars

\* C14: a non-exempt request that the limiter denies is answered 429 with
\* retry_after equal to the period and with the configured capacity in its
\* detail, and it reaches no handler: no session append, no preference write
\* and no canon write happens.
C14_DeniedReachesNoStore ==
    [][(last'.op = "request" /\ last'.status_code = 429) =>
          /\ last'.content.retry_after = RATE_LIMIT_PERIOD
          /\ last'.content.detail = <<RATE_LIMIT_REQUESTS, RATE_LIMIT_PERIOD>>
          /\ ~last'.downstream
          /\ UNCHANGED <<sessions, session_store, preferences, canon_file>>]_vars

\* C14 witness: a request has been denied after earlier requests wrote to the
\* three stores
C14_Witness ==
    /\ last.op = "request" /\ last.status_code = 429
    /\ \E s \in SessionIds : session_store[s] # Absent
    /\ \E u \in UserIds : preferences[u] # Absent
    /\ canon_file # Absent

\* C21: in one chat request neither turn is appended before compose has
\* returned, so the session memory of the context handed to generation equals
\* the session log as it was when the request arrived.
C21_ComposeBeforeAppend ==
    up =>
      \A s \in SessionIds, content \in Contents :
          LET arrived == GetSessionHistory(storage_type, sessions, session_store, s, "ok")
              r == SendMessage(storage_type, sessions, session_store, preferences,
                               canon_file, s, "None", "basic", content, "reply", now, "ok")
          IN r.context.present =>
                r.context.value.session_memory = arrived.value

-----------------------------------------------------------------------------
(* The chat handler: tier resolution and the two appends of send_message *)

\* settings.ADMIN_API_KEY and settings.ADVISORY_API_KEY as deployed
ADMIN_API_KEY == "admin-key"
ADVISORY_API_KEY == "advisory-key"

\* the X-API-Key header: not sent, empty, one of the two keys, or another text
ApiKeys == {"None", "", ADMIN_API_KEY, ADVISORY_API_KEY, "other"}

\* _get_authorization_tier
GetAuthorizationTier(api_key) ==
    IF api_key \in {"None", ""} THEN "basic"
    ELSE IF api_key = ADMIN_API_KEY THEN ADMIN_READY
    ELSE IF api_key = ADVISORY_API_KEY THEN "advisory"
    ELSE "basic"

\* lines 70-73 of send_message: the header's tier, replaced by the body's
\* tier whenever the body's tier is not BASIC
ResolveTier(x_api_key, body_tier) ==
    IF body_tier # "basic" THEN body_tier ELSE GetAuthorizationTier(x_api_key)

\* "memory_context.session_memory[-10:]"
HistoryWindow == 10

LastN(seq, n) == IF Len(seq) <= n THEN seq ELSE SubSeq(seq, Len(seq) - n + 1, Len(seq))

\* _build_message_history: the system prompt, the last ten messages of the
\* context's session memory as role and content, then the current user message
BuildMessageHistory(user_message, memory_context) ==
    LET recent == LastN(memory_context.session_memory, HistoryWindow)
    IN <<[role |-> "system", content |-> "prompt"]>>
       \o [k \in 1..Len(recent) |-> [role |-> recent[k].role,
                                     content |-> recent[k].content]]
       \o <<[role |-> "user", content |-> user_message]>>

\* the handler called directly (no middleware in front)
ChatMessage(s, x_api_key, body_tier, user_id, content, reply, io) ==
    /\ up
    /\ LogLen(s) + 2 <= MaxLog
    /\ LET r == SendMessage(storage_type, sessions, session_store, preferences,
                            canon_file, s, user_id, ResolveTier(x_api_key, body_tier),
                            content, reply, now, io)
       IN /\ sessions' = r.sessions
          /\ session_store' = r.store
          /\ last' = [op |-> "chat", sid |-> s, x_api_key |-> x_api_key,
                      body_tier |-> body_tier, status_code |-> r.status_code,
                      tier |-> IF r.context.present
                               THEN r.context.value.authorization_tier
                               ELSE "none",
                      before |-> LogLen(s)]
    /\ UNCHANGED <<config, canon_writer, peer_sessions, pending, up, now, hist,
                   canon_file, preferences, buckets, nc_sessions, nc_session_store>>

ChatNext ==
    \/ Startup("ok")
    \/ Tick
    \/ \E s \in SessionIds, x_api_key \in ApiKeys, body_tier \in AuthorizationTier,
          content \in Contents, io \in IoOf(storage_type) :
          ChatMessage(s, x_api_key, body_tier, "None", content, "reply", io)
    \/ \E s \in SessionIds, io \in IoOf(storage_type) : Clear(s, io)

SpecChat == Init /\ [][ChatNext]_vars

\* Two chat requests on one session.  Inside one process send_message runs
\* from its first line to its return without giving up the event loop: the
\* provider clients are the synchronous ones, so the awaited generate_response
\* never suspends.  Two requests overlap only when two worker processes
\* handle them, each with its own cache, over the one durable log.

\* the reply generated for the message of a worker
WorkerReply(w) == IF w = 1 THEN "reply-a" ELSE "reply-b"

\* send_message of worker w up to the generation call: the user turn is
\* appended and persisted, the context is woven from the worker's cache
BeginChat(w, s) ==
    /\ up
    /\ pending[w] = Idle
    /\ (s \in DOMAIN CacheOf(w) => Len(CacheOf(w)[s]) + 2 <= MaxLog)
    /\ LET a1 == AddMessageToSession(storage_type, CacheOf(w), session_store, s,
                                     "user", WorkerContent(w), now, "ok")
           c == BuildMemoryContext(storage_type, a1.sessions, a1.store, preferences,
                                   canon_file, s, "None", "basic", "ok", "ok", "ok")
           racing == {x \in Workers \ {w} :
                         pending[x].pc = "generating" /\ pending[x].sid = s}
       IN /\ sessions' = IF w = 1 THEN c.sessions ELSE sessions
          /\ peer_sessions' = IF w = 2 THEN c.sessions ELSE peer_sessions
          /\ session_store' = a1.store
          /\ pending' = [x \in Workers |->
                           IF x = w
                           THEN [pc |-> "generating", sid |-> s,
                                 overlapped |-> racing # {}]
                           ELSE IF x \in racing
                           THEN [pending[x] EXCEPT !.overlapped = TRUE]
                           ELSE pending[x]]
    /\ last' = [op |-> "chat_begun", sid |-> s, worker |-> w]
    /\ UNCHANGED <<config, canon_writer, up, now, hist, notSession,
                   nc_sessions, nc_session_store>>

\* the generation has returned: the assistant turn is appended and persisted
FinishChat(w) ==
    /\ pending[w].pc = "generating"
    /\ LET s == pending[w].sid
           a2 == AddMessageToSession(storage_type, CacheOf(w), session_store, s,
                                     "assistant", WorkerReply(w), now, "ok")
       IN /\ sessions' = IF w = 1 THEN a2.sessions ELSE sessions
          /\ peer_sessions' = IF w = 2 THEN a2.sessions ELSE peer_sessions
          /\ session_store' = a2.store
          /\ last' = [op |-> "race_chat", sid |-> s, worker |-> w,
                      overlapped |-> pending[w].overlapped]
    /\ pending' = [pending EXCEPT ![w] = Idle]
    /\ UNCHANGED <<config, canon_writer, up, now, hist, notSession,
                   nc_sessions, nc_session_store>>

ChatRaceNext ==
    \/ AllIdle /\ Startup("ok")
    \/ Tick
    \/ \E w \in Workers, s \in SessionIds : BeginChat(w, s)
    \/ \E w \in Workers : FinishChat(w)

SpecChatRace == Init /\ [][ChatRaceNext]_vars

\* the order BASIC < ADVISORY < ADMIN_READY
TierRank(tier) ==
    CASE tier = "basic" -> 0 [] tier = "advisory" -> 1 [] tier = ADMIN_READY -> 2

HigherTier(a, b) == IF TierRank(a) >= TierRank(b) THEN a ELSE b

\* C31: the tier send_message stamps on the context is the higher, in the
\* order BASIC < ADVISORY < ADMIN_READY, of the tier derived from the
\* X-API-Key header and the tier declared in the request body.
C31_HigherTierStamped ==
    (last.op = "chat" /\ last.tier # "none") =>
        last.tier = HigherTier(GetAuthorizationTier(last.x_api_key), last.body_tier)

\* C31 where the body does not declare a lower tier than the header gives
C31_BodyNotBelowHeader ==
    (/\ last.op = "chat" /\ last.tier # "none"
     /\ TierRank(last.body_tier) >= TierRank(GetAuthorizationTier(last.x_api_key)))
    => last.tier = HigherTier(GetAuthorizationTier(last.x_api_key), last.body_tier)

\* the log get returns once send_message has finished, against the log get
\* returned when the request arrived: unchanged, or longer by the user turn
\* followed by the assistant turn
C37_TwoOrNone(s, content, reply, io) ==
    LET before == GetSessionHistory(storage_type, sessions, session_store, s, "ok")
        r == SendMessage(storage_type, before.sessions, session_store, preferences,
                         canon_file, s, "None", "basic", content, reply, now, io)
        after == GetSessionHistory(storage_type, r.sessions, r.store, s, "ok").value
    IN \/ after = before.value
       \/ after = before.value \o <<Message("user", content, UtcNow(now)),
                                    Message("assistant", reply, UtcNow(now))>>

\* C37: when send_message finishes, with a response or with an error, and no
\* other request touched the session meanwhile, the session log that get
\* returns has grown by exactly two messages (the user turn followed by the
\* assistant turn) or by none.
C37_TurnsTogetherOrNotAtAll ==
    up =>
      \A s \in SessionIds, content \in Contents, io \in IoOf(storage_type) :
          C37_TwoOrNone(s, content, "reply", io)

\* C37 for the requests during which the durable backend does not fail
C37_WithoutFailure ==
    up => \A s \in SessionIds, content \in Contents :
              C37_TwoOrNone(s, content, "reply", "ok")

\* how many entries of a message list are a user message with this content
RECURSIVE UserCopies(_, _)
UserCopies(list, content) ==
    IF list = <<>> THEN 0
    ELSE (IF list[1].role = "user" /\ list[1].content = content THEN 1 ELSE 0)
         + UserCopies(Tail(list), content)

\* C38: the message list that send_message causes the generation collaborator
\* to build for one request contains the current user message exactly once:
\* as many user messages of that content as the log held when the request
\* arrived, and one more.
C38_CurrentMessageOnce ==
    up =>
      \A s \in SessionIds, content \in Contents :
          LET arrived == GetSessionHistory(storage_type, sessions, session_store, s, "ok")
              r == SendMessage(storage_type, arrived.sessions, session_store, preferences,
                               canon_file, s, "None", "basic", content, "reply", now, "ok")
          IN r.context.present =>
                UserCopies(BuildMessageHistory(content, r.context.value), content)
                    = UserCopies(arrived.value, content) + 1

\* C38 for a context woven from the log as it was when the request arrived
C38_WovenBeforeAppend ==
    up =>
      \A s \in SessionIds, content \in Contents :
          LET arrived == GetSessionHistory(storage_type, sessions, session_store, s, "ok")
              c == BuildMemoryContext(storage_type, arrived.sessions, session_store,
                                      preferences, canon_file, s, "None", "basic",
                                      "ok", "ok", "ok")
          IN UserCopies(BuildMessageHistory(content, c.context), content)
                 = UserCopies(arrived.value, content) + 1

\* the user turn of worker w is in the log, immediately followed by the
\* assistant turn produced for it
TurnKept(log, w) ==
    \E i \in 1..(Len(log) - 1) :
        /\ log[i].role = "user" /\ log[i].content = WorkerContent(w)
        /\ log[i + 1].role = "assistant" /\ log[i + 1].content = WorkerReply(w)

\* every user turn that is in the log is immediately followed by the
\* assistant turn produced for it
TurnsPaired(log) ==
    \A i \in 1..Len(log) :
        log[i].role = "user" =>
            /\ i < Len(log)
            /\ log[i + 1].role = "assistant"
            /\ \E w \in Workers : /\ log[i].content = WorkerContent(w)
                                  /\ log[i + 1].content = WorkerReply(w)

\* the log get returns for session s: to either worker, and to a process that
\* has not cached the session
ResultingLogs(s) ==
    {GetSessionHistory(storage_type, cache, session_store, s, "ok").value :
        cache \in {sessions, peer_sessions, <<>>}}

\* C39: for any two send_message requests on the same session handled
\* concurrently, the resulting log has each user turn immediately followed by
\* the assistant turn produced for it.
C39_TurnsDoNotInterleave ==
    \A s \in SessionIds :
        (last.op = "race_chat" /\ last.sid = s /\ last.overlapped /\ AllIdle) =>
            \A log \in ResultingLogs(s) : \A w \in Workers : TurnKept(log, w)

\* C39 for the turns that are in the log: none is separated from its
\* assistant turn
C39_KeptTurnsPaired ==
    \A s \in SessionIds :
        AllIdle => \A log \in ResultingLogs(s) : TurnsPaired(log)

-----------------------------------------------------------------------------
(* Claims about the rate limiter, checked under SpecLimiter *)

\* C9: for every bucket state and call time, with elapsed = now - last_refill
\* and t = min(C, tokens + elapsed*R), the call is permitted exactly when
\* t >= 1, and a permitted call stores tokens = t - 1 and last_refill = now
\* and reports t - 1 as remaining (amounts in units of 1/RATE_LIMIT_PERIOD).
C9_TokenBucketRule ==
    up =>
      \A ip \in ClientIps : \A stall \in Stalls(ip) :
          LET tokens == IF ip \in DOMAIN buckets THEN buckets[ip][1]
                        ELSE RATE_LIMIT_REQUESTS * RATE_LIMIT_PERIOD
              last_refill == IF ip \in DOMAIN buckets THEN buckets[ip][2] ELSE now + stall
              elapsed == now - last_refill
              sum == tokens + elapsed * RATE_LIMIT_REQUESTS
              t == IF sum > RATE_LIMIT_REQUESTS * RATE_LIMIT_PERIOD
                   THEN RATE_LIMIT_REQUESTS * RATE_LIMIT_PERIOD ELSE sum
              r == CheckRateLimit(buckets, ip, now, now + stall)
          IN /\ r.allowed = (t >= RATE_LIMIT_PERIOD)
             /\ r.allowed =>
                   /\ r.buckets[ip] = <<t - RATE_LIMIT_PERIOD, now>>
                   /\ r.remaining = t - RATE_LIMIT_PERIOD

\* C9 witness: a call was permitted on a partly refilled bucket, which now
\* holds a fraction of a token
C9_Witness ==
    /\ last.op = "allow" /\ last.allowed /\ ~last.first
    /\ buckets[last.ip] = <<last.remaining, last.at>>
    /\ last.remaining % OneToken # 0
    /\ \E ip \in DOMAIN buckets : buckets[ip][1] < OneToken /\ ip # last.ip

\* C10: after any sequence of calls made at non-decreasing clock readings,
\* every bucket's stored token count lies in [0, C].
C10_TokensInRange ==
    \A ip \in DOMAIN buckets :
        0 <= buckets[ip][1] /\ buckets[ip][1] <= RATE_LIMIT_REQUESTS * OneToken

\* the answers dispatch gives to a run of requests of one identity, made at
\* the clock readings calls[k] = <<current_time, t_created>>
RECURSIVE Answers(_, _, _)
Answers(bkts, ip, calls) ==
    IF calls = <<>> THEN <<>>
    ELSE LET d == Dispatch(bkts, ChatPath, ip, calls[1][1], calls[1][2])
         IN <<d>> \o Answers(d.buckets, ip, Tail(calls))

\* C+1 non-decreasing call times, as offsets from the first, all inside an
\* interval shorter than P/C seconds
RapidOffsets ==
    {o \in [1..(RATE_LIMIT_REQUESTS + 1) -> 0..RATE_LIMIT_PERIOD] :
        /\ o[1] = 0
        /\ \A k \in 1..RATE_LIMIT_REQUESTS : o[k] <= o[k + 1]
        /\ o[RATE_LIMIT_REQUESTS + 1] * RATE_LIMIT_REQUESTS < RATE_LIMIT_PERIOD}

\* the run of C11: C+1 rapid calls of an unseen identity, the clock read a
\* second time during the first of them no later than the second call, then
\* a wait longer than P and one more call
RapidRun(ip, o, stall, wait) ==
    Answers(buckets, ip,
            [k \in 1..(RATE_LIMIT_REQUESTS + 1) |->
                <<now + o[k], IF k = 1 THEN now + stall ELSE now + o[k]>>]
            \o <<<<now + o[RATE_LIMIT_REQUESTS + 1] + wait,
                   now + o[RATE_LIMIT_REQUESTS + 1] + wait>>>>)

C11_RunAsClaimed(run) ==
    /\ \A k \in 1..RATE_LIMIT_REQUESTS : run[k].downstream
    /\ run[RATE_LIMIT_REQUESTS + 1].status_code = 429
    /\ run[RATE_LIMIT_REQUESTS + 1].content.retry_after = RATE_LIMIT_PERIOD
    /\ run[RATE_LIMIT_REQUESTS + 2].downstream

\* C11: the first C calls of an unseen identity, made within less than P/C
\* seconds, are all permitted; the next call in that interval is denied with
\* retry_after = P; after a wait longer than P the next call is permitted.
C11_BurstThenDenyThenRecover ==
    up =>
      \A ip \in ClientIps \ DOMAIN buckets : \A o \in RapidOffsets :
      \A stall \in 0..o[2] : \A wait \in {RATE_LIMIT_PERIOD + 1, RATE_LIMIT_PERIOD + 2} :
          C11_RunAsClaimed(RapidRun(ip, o, stall, wait))

\* C11 where the capacity is at least 2 (holds; the capacity 1 is the failing case)
C11_FromCapacityTwo ==
    RATE_LIMIT_REQUESTS >= 2 => C11_BurstThenDenyThenRecover

\* k first requests of one unseen identity handled together: their checks run
\* one after the other (no await inside _check_rate_limit), the first at the
\* reading now with its bucket created at now + stall, the others at now + stall
TogetherRun(ip, k, stall) ==
    Answers(buckets, ip,
            [i \in 1..k |-> IF i = 1 THEN <<now, now + stall>>
                            ELSE <<now + stall, now + stall>>])

C23_AllDeducted(ip, k, stall) ==
    LET run == TogetherRun(ip, k, stall)
        table == run[k].buckets
    IN /\ ip \in DOMAIN table
       /\ table[ip][1] <= (RATE_LIMIT_REQUESTS - k) * OneToken + stall * refill_rate

\* C23: when k <= C first requests of one unseen identity are handled
\* concurrently, one bucket exists for it afterwards and every token they
\* consumed is deducted from it: it holds at most C - k tokens plus the
\* refill accrued meanwhile.
C23_FirstRequestsShareOneBucket ==
    up =>
      \A ip \in ClientIps \ DOMAIN buckets : \A k \in 1..RATE_LIMIT_REQUESTS :
      \A stall \in 0..1 : C23_AllDeducted(ip, k, stall)

\* C23 where the capacity is at least 2 (holds)
C23_FromCapacityTwo ==
    RATE_LIMIT_REQUESTS >= 2 => C23_FirstRequestsShareOneBucket

\* the calls of a window: WindowCalls calls of one identity at non-decreasing
\* times, given as offsets from now, the last at most WindowSpan seconds later
WindowCalls == 4
WindowSpan == 1
WindowOffsets ==
    {o \in [1..WindowCalls -> 0..WindowSpan] :
        /\ o[1] = 0
        /\ \A k \in 1..(WindowCalls - 1) : o[k] <= o[k + 1]}

WindowRun(ip, o) ==
    Answers(buckets, ip, [k \in 1..WindowCalls |-> <<now + o[k], now + o[k]>>])

RECURSIVE Permitted(_)
Permitted(run) ==
    IF run = <<>> THEN 0
    ELSE (IF run[1].downstream THEN 1 ELSE 0) + Permitted(Tail(run))

\* C32: for any identity and any window of length T, whatever mix of permitted
\* and denied calls the identity makes at non-decreasing times, the number of
\* permitted calls in the window is at most C + R*T; denied calls do not bring
\* the next permitted call forward.
C32_RateEnforced ==
    up =>
      \A ip \in ClientIps : \A o \in WindowOffsets :
          Permitted(WindowRun(ip, o)) * OneToken
              <= max_tokens + refill_rate * o[WindowCalls]

\* C32 for the windows in which no call is denied
C32_WithoutDenials ==
    up =>
      \A ip \in ClientIps : \A o \in WindowOffsets :
          LET run == WindowRun(ip, o)
          IN (\A k \in 1..WindowCalls : run[k].downstream) =>
                Permitted(run) * OneToken <= max_tokens + refill_rate * o[WindowCalls]

\* two later allow calls of one identity, the first d seconds from now with
\* the clock read again stall seconds later if its bucket is created then,
\* the second e seconds after the first: outcome and remaining value of each
TwoCalls(bkts, ip, d, stall, e) ==
    LET a == CheckRateLimit(bkts, ip, now + d, now + d + stall)
        b == CheckRateLimit(a.buckets, ip, now + d + stall + e, now + d + stall + e)
    IN <<a.allowed, a.remaining, b.allowed, b.remaining>>

\* C36: running cleanup_old_entries at any point changes neither the
\* permitted/denied outcome nor the remaining value of any later allow call,
\* compared with the same calls without the cleanup.
C36_CleanupInvisible ==
    up =>
      \A ip \in ClientIps, d \in 0..1, stall \in 0..1, e \in 0..1 :
          TwoCalls(CleanupOldEntries(buckets, now), ip, d, stall, e)
              = TwoCalls(buckets, ip, d, stall, e)

\* C36 when the clock gives the same reading twice within the call that
\* creates a bucket
C36_SingleClockReading ==
    up =>
      \A ip \in ClientIps, d \in 0..1, e \in 0..1 :
          TwoCalls(CleanupOldEntries(buckets, now), ip, d, 0, e)
              = TwoCalls(buckets, ip, d, 0, e)

\* a bucket that has not been refilled for more than ten periods
IdleBucket(ip) ==
    ip \in DOMAIN buckets /\ buckets[ip][2] < now - RATE_LIMIT_PERIOD * CleanupPeriods

\* C25: while the service keeps running, a bucket whose last_refill is older
\* than 10 periods does not stay in the table for ever: it is reclaimed.
C25_IdleBucketReclaimed ==
    \A ip \in ClientIps : []<>(~IdleBucket(ip))

\* C29: cleanup_old_entries removes exactly the buckets whose last_refill is
\* earlier than now - 10*period and leaves every other bucket's tokens and
\* last_refill unchanged.
C29_CleanupRemovesExactlyOld ==
    up =>
      LET after == CleanupOldEntries(buckets, now)
      IN /\ DOMAIN after = {ip \in DOMAIN buckets :
                               ~(buckets[ip][2] < now - 10 * RATE_LIMIT_PERIOD)}
         /\ \A ip \in DOMAIN after : after[ip] = buckets[ip]

\* C29 witness: a cleanup has removed one bucket and kept another, whose
\* last_refill is exactly ten periods old
C29_Witness ==
    /\ last.op = "cleanup"
    /\ \E ip \in DOMAIN last.before : ip \notin DOMAIN buckets
    /\ \E ip \in DOMAIN buckets :
          /\ buckets[ip] = last.before[ip]
          /\ buckets[ip][2] = now - 10 * RATE_LIMIT_PERIOD

\* C12: an allow call for identity A, permitted or denied, leaves the bucket
\* of every other identity B as it was (none is created, none changed), and
\* B's next call is decided and answered as it would have been without A's.
C12_BucketsIndependent ==
    up =>
      \A A \in ClientIps : \A stall \in Stalls(A) : \A B \in ClientIps \ {A} :
          LET r == CheckRateLimit(buckets, A, now, now + stall)
              t == now + stall
          IN /\ (B \in DOMAIN r.buckets) = (B \in DOMAIN buckets)
             /\ B \in DOMAIN buckets => r.buckets[B] = buckets[B]
             /\ CheckRateLimit(r.buckets, B, t, t).allowed
                    = CheckRateLimit(buckets, B, t, t).allowed
             /\ CheckRateLimit(r.buckets, B, t, t).remaining
                    = CheckRateLimit(buckets, B, t, t).remaining

\* C12 witness: A has just been denied on its exhausted bucket while B's
\* bucket holds a token or more
C12_Witness ==
    /\ last.op = "allow" /\ ~last.allowed /\ ~last.first
    /\ \E B \in DOMAIN buckets \ {last.ip} : buckets[B][1] >= OneToken

\* C13: a request for an exempt path goes downstream whatever the buckets
\* hold, and dispatch leaves the bucket table as it was.
C13_ExemptPathsBypass ==
    up =>
      \A path \in ExemptPaths : \A ip \in ClientIps : \A stall \in Stalls(ip) :
          LET d == Dispatch(buckets, path, ip, now, now + stall)
          IN d.downstream /\ d.status_code # 429 /\ d.buckets = buckets

\* C13 witness: an exempt request of an identity whose bucket is exhausted has
\* gone downstream and the table is as before
C13_Witness ==
    /\ last.op = "probe" /\ last.path \in ExemptPaths /\ last.downstream
    /\ last.ip \in DOMAIN buckets /\ buckets[last.ip][1] < OneToken
    /\ buckets = last.before
    /\ \E ip \in ClientIps : ip \notin DOMAIN buckets

\* the tokens and last_refill a denied call finds: the stored bucket, or for
\* an unseen identity the bucket as it is created
C15_Denied(bkts, ip, stall) ==
    LET r == CheckRateLimit(bkts, ip, now, now + stall)
        pre == BucketOf(bkts, ip, now + stall)
    IN ~r.allowed =>
          /\ r.buckets[ip][1] >= pre[1]
          /\ r.buckets[ip][2] = pre[2]
          /\ r.remaining < OneToken

\* C15: a denied allow call consumes no token (the bucket holds no fewer
\* tokens than before), leaves last_refill as it was, and reports a remaining
\* value below 1.
C15_DeniedKeepsBucket ==
    up => \A ip \in ClientIps : \A stall \in Stalls(ip) : C15_Denied(buckets, ip, stall)

\* C15 for the identities that have a bucket already (holds)
C15_KnownIdentity ==
    up => \A ip \in DOMAIN buckets : C15_Denied(buckets, ip, 0)

-----------------------------------------------------------------------------
(* Claims about the preferences, checked under SpecPreferences *)

\* a datetime as clock ticks
PrefTicks(dt) == dt.second * UsPerSec + dt.microsecond

\* C16: after a put that succeeds, get for that user id (a function of the
\* backend alone, so the same from any instance or process) returns a record
\* whose updated_at is not earlier than the time of the put and whose other
\* fields equal those of the record that was put.
C16_PutThenGet ==
    up =>
      \A u \in UserIds, tone \in TonePreferences, t0 \in 0..MaxClock :
          LET p == UserPreferences(u, tone, UtcNow(t0))
              r == SaveUserPreferences(storage_type, preferences, p, now, "ok")
              g == GetUserPreferences(storage_type, r.store, u, "ok")
          IN /\ ~r.raised /\ ~g.raised /\ g.value.present
             /\ PrefTicks(g.value.value.updated_at) >= now
             /\ [g.value.value EXCEPT !.updated_at = p.updated_at] = p

\* C16 witness: a put made at a time with a fraction of a second has
\* succeeded, the process has restarted since, and the stored record reads
\* back with that time
C16_Witness ==
    /\ up /\ last = NoCall /\ now > 1
    /\ \E u \in UserIds :
          LET g == GetUserPreferences(storage_type, preferences, u, "ok")
          IN /\ g.value.present
             /\ g.value.value.updated_at.microsecond # 0
             /\ g.value.value.tone_preference = "detailed"

\* C24: after any interleaving of put calls for one user id, once they have
\* completed, the stored record equals, field for field except updated_at, the
\* record passed to one of the puts.
C24_LastWriterWins ==
    \A u \in UserIds :
        (last.op = "race_put" /\ last.user_id = u /\ AllIdle) =>
            /\ preferences[u].kind = "data"
            /\ \E tone \in TonePreferences :
                  [PreferencesFromData(preferences[u].data) EXCEPT !.updated_at = UtcNow(0)]
                      = UserPreferences(u, tone, UtcNow(0))

\* C24 under the key-value backend alone (holds): set replaces the value whole
C24_RedisBackend ==
    storage_type = "redis" => C24_LastWriterWins

\* C17: put with an empty user id fails validation and writes nothing: the
\* stored preference records are the same after the call as before it.
C17_EmptyUserIdRejected ==
    up =>
      \A tone \in TonePreferences, io \in IoOf(storage_type) :
          LET r == SaveUserPreferences(storage_type, preferences,
                                       UserPreferences("", tone, UtcNow(now)), now, io)
          IN r.raised /\ r.store = preferences

-----------------------------------------------------------------------------
(* Claims about the context weave, checked under SpecCompose *)

\* the call with no backend failure, for comparison
ComposeOk(s, user_id, tier) ==
    BuildMemoryContext(storage_type, sessions, session_store, preferences, canon_file,
                       s, user_id, tier, "ok", "ok", "ok")

\* C6: build_memory_context never raises: whichever of the session, the
\* preferences and the canon fetch fail, under either backend, it returns a
\* context in which each failed layer is empty or absent and the other layers
\* are what they are without the failure.
C6_ComposeNeverRaises ==
    up =>
      \A s \in SessionIds, user_id \in UserIdArgs, tier \in AuthorizationTier,
         ioS \in ReadIo, ioP \in ReadIo, ioC \in ReadIo :
          LET r == BuildMemoryContext(storage_type, sessions, session_store, preferences,
                                      canon_file, s, user_id, tier, ioS, ioP, ioC)
              ok == ComposeOk(s, user_id, tier).context
          IN /\ ~r.raised
             /\ IF ioS = "ok" \/ s \in DOMAIN sessions
                THEN r.context.session_memory = ok.session_memory
                ELSE r.context.session_memory = <<>>
             /\ IF ioP = "ok"
                THEN r.context.user_preferences = ok.user_preferences
                ELSE ~r.context.user_preferences.present
             /\ IF ioC = "ok"
                THEN r.context.canon_memory = ok.canon_memory
                ELSE ~r.context.canon_memory.present
             /\ r.context.authorization_tier = tier

\* the session history as stored: the cached list, else the persisted array
StoredHistory(s) ==
    IF s \in DOMAIN sessions THEN sessions[s]
    ELSE IF session_store[s].kind = "data"
    THEN [i \in 1..Len(session_store[s].data) |->
            [role |-> session_store[s].data[i].role,
             content |-> session_store[s].data[i].content,
             timestamp |-> FromIsoFormat(session_store[s].data[i].timestamp),
             metadata |-> "None"]]
    ELSE <<>>

\* C7: with the backend working, the context holds the full session history
\* (every message, in order), preferences exactly when a user id is supplied
\* and a readable record is stored for it, the canon record when one is
\* readable, and the tier that was passed in.
C7_ContextHoldsLayers ==
    up =>
      \A s \in SessionIds, user_id \in UserIdArgs, tier \in AuthorizationTier :
          LET r == ComposeOk(s, user_id, tier)
          IN /\ ~r.raised
             /\ r.context.session_memory = StoredHistory(s)
             /\ (hist[s].tracked => r.context.session_memory = hist[s].log)
             /\ r.context.user_preferences.present =
                  (user_id \in UserIds /\ preferences[user_id].kind = "data")
             /\ (r.context.user_preferences.present =>
                   r.context.user_preferences.value.user_id = user_id)
             /\ r.context.canon_memory.present =
                  (canon_file.kind = "data" /\ CanonMemory(canon_file.data).present)
             /\ r.context.authorization_tier = tier

\* C7 witness: a context was built for a session with two messages, a user
\* with no saved preferences and a stored canon record
C7_Witness ==
    /\ last.op = "compose" /\ ~last.raised
    /\ last.user_id \in UserIds
    /\ Len(last.context.session_memory) = 2
    /\ ~last.context.user_preferences.present
    /\ last.context.canon_memory.present
    /\ last.context.authorization_tier = "advisory"

\* C8: build_memory_context is read-only: the durable session log is what it
\* would be, and a get of any session returns what it would return, had
\* build_memory_context never been called.
C8_ComposeReadOnly ==
    up =>
      /\ session_store = nc_session_store
      /\ \A s \in SessionIds :
            GetSessionHistory(storage_type, sessions, session_store, s, "ok").value
              = GetSessionHistory(storage_type, nc_sessions, nc_session_store, s, "ok").value

-----------------------------------------------------------------------------
(* Claims about the canon memory, checked under SpecCanon *)

\* the clock reading a datetime stands for
DtTicks(dt) == dt.second * UsPerSec + dt.microsecond

\* C18: a get that runs while an admin update is under way returns the
\* complete record from before the update or the complete record after it,
\* never the not-found signal.
C18_ReadersSeeWholeRecord ==
    canon_writer.pc = "writing" =>
        GetCanonMemory(canon_file, "ok")
            \in {Some(canon_writer.before), Some(canon_writer.after)}

\* C27: the stored canon record changes only through an update call with tier
\* ADMIN_READY: get, compose, non-admin update, session and preference
\* operations and restarts with their bootstrap leave an existing record as
\* it is; bootstrap writes a record only when none exists.
C27_OnlyAdminUpdateChangesCanon ==
    [][(canon_file # Absent /\ canon_file' # canon_file) =>
          (last'.op = "update" /\ last'.tier = ADMIN_READY)]_vars

\* C27 witness: a record changed by an admin update is still the stored record
\* after the process was restarted and its bootstrap ran, sessions and
\* preferences having been written
C27_Witness ==
    /\ up /\ storage_type = "file" /\ last = NoCall
    /\ canon_file.kind = "data"
    /\ canon_file.data \notin {StartupCanon, InitDbCanon}
    /\ \E s \in SessionIds : session_store[s] # Absent
    /\ \E u \in UserIds : preferences[u] # Absent

\* C30: an ADMIN_READY update on a canon record that was never initialized,
\* or that cannot be read, returns False, raises nothing and creates no
\* record: the file is as it was and get still gives the not-found signal.
C30_UpdateWithoutRecordFails ==
    up => \A u \in Updates, io \in CanonIo :
            (canon_file.kind # "data" \/ io = "read_fails") =>
               LET r == UpdateCanonMemory(canon_file, u, ADMIN_READY, now, io)
               IN /\ r.result = FALSE
                  /\ r.file = canon_file
                  /\ (canon_file.kind # "data" =>
                         GetCanonMemory(r.file, "ok") = None)

\* C30 witness: an admin update was refused while no canon record exists
C30_Witness ==
    /\ up /\ canon_file = Absent
    /\ last.op = "update" /\ last.tier = ADMIN_READY /\ last.result = FALSE
    /\ GetCanonMemory(canon_file, "ok") = None

\* C3: an update with a tier other than ADMIN_READY returns False and leaves
\* the stored canon record, last_updated included, exactly as it was.
C3_NonAdminUpdateRejected ==
    [][(last'.op = "update" /\ last'.tier # ADMIN_READY) =>
          (last'.result = FALSE /\ canon_file' = canon_file)]_vars

\* C3 witness: a non-admin update was made on a stored, readable canon record
C3_Witness ==
    /\ last.op = "update" /\ last.tier = "advisory" /\ last.result = FALSE
    /\ GetCanonMemory(canon_file, "ok").present

\* what C4 says an admin update of the one recognized field k to x does:
\* r is what the call returns and writes, before the record read at the call
C4_Effect(k, x, r, before, t) ==
    /\ r.result = TRUE
    /\ r.file.kind = "data"
    /\ r.file.data[k] = x
    /\ \A f \in UpdatableFields \ {k} : r.file.data[f] = before[f]
    /\ r.file.data["last_updated"].t = "time"
    /\ DtTicks(FromIsoFormat(r.file.data["last_updated"].v)) >= t

\* C4 as stated: in every state the service can be in, an admin update holding
\* one recognized field name returns True, sets that field to the supplied
\* value, leaves the other three fields as they read before, and stamps
\* last_updated not earlier than the call (no backend error during the call).
C4_AsStated ==
    up =>
      \A k \in UpdatableFields, x \in UpdateValues :
          C4_Effect(k, x, UpdateCanonMemory(canon_file, k :> x, ADMIN_READY, now, "ok"),
                    [f \in CanonFields |->
                       IF canon_file.kind = "data" /\ f \in DOMAIN canon_file.data
                       THEN FieldCoerce(f, canon_file.data[f]) ELSE FieldDefault(f)],
                    now)

\* C4 amended: the same, when a canon record is stored and readable and the
\* read and the write of the file do not fail.
C4_AdminUpdateSetsField ==
    (up /\ GetCanonMemory(canon_file, "ok").present) =>
      \A k \in UpdatableFields, x \in UpdateValues :
          C4_Effect(k, x, UpdateCanonMemory(canon_file, k :> x, ADMIN_READY, now, "ok"),
                    GetCanonMemory(canon_file, "ok").value, now)

\* C4 witness: an admin update of version alone has been applied to a record
\* that was stamped earlier
C4_Witness ==
    /\ last.op = "update" /\ last.tier = ADMIN_READY /\ last.result = TRUE
    /\ canon_file.kind = "data"
    /\ canon_file.data["version"] = JStr("2.0.0")
    /\ canon_file.data["locked"] = JBool(TRUE)
    /\ canon_file.data["last_updated"] = JTime(UtcNow(now))
    /\ now > 0

\* C5: an admin update applies only keys among the four named fields; any
\* other key is ignored, the call still returns True, and the four fields are
\* unchanged by that key (canon stored and readable, no backend error).
C5_UnknownKeysIgnored ==
    (up /\ GetCanonMemory(canon_file, "ok").present) =>
      \A u \in Updates :
          LET r == UpdateCanonMemory(canon_file, u, ADMIN_READY, now, "ok")
          IN /\ r.result = TRUE
             /\ r.file.kind = "data"
             /\ \A f \in UpdatableFields \ DOMAIN u :
                   r.file.data[f] = GetCanonMemory(canon_file, "ok").value[f]

\* C34: whenever update returns False, for any reason including a failure
\* while the record is being written, the stored canon record is the same as
\* before the call and is still readable by get.
C34_FailedUpdateKeepsRecord ==
    (up /\ GetCanonMemory(canon_file, "ok").present) =>
      \A u \in Updates, tier \in AuthorizationTier, io \in CanonIo :
          LET r == UpdateCanonMemory(canon_file, u, tier, now, io)
          IN r.result = FALSE =>
                /\ r.file = canon_file
                /\ GetCanonMemory(r.file, "ok").present

\* C34 for the failures that happen before the file is opened for writing
C34_BeforeTheWrite ==
    (up /\ GetCanonMemory(canon_file, "ok").present) =>
      \A u \in Updates, tier \in AuthorizationTier, io \in CanonIo \ {"fail_during"} :
          LET r == UpdateCanonMemory(canon_file, u, tier, now, io)
          IN r.result = FALSE =>
                /\ r.file = canon_file
                /\ GetCanonMemory(r.file, "ok").present

\* C35: after every update that returns True, for any supplied values of the
\* updated fields, get returns a canon record (not the not-found signal) whose
\* updated fields hold the supplied values.
C35_SuccessfulUpdateReadable ==
    (up /\ GetCanonMemory(canon_file, "ok").present) =>
      \A k \in UpdatableFields, x \in UpdateValues :
          LET r == UpdateCanonMemory(canon_file, k :> x, ADMIN_READY, now, "ok")
              got == GetCanonMemory(r.file, "ok")
          IN r.result = TRUE => (got.present /\ got.value[k] = x)

\* C35 for supplied values that the schema of the field accepts as they are
C35_ValidValues ==
    (up /\ GetCanonMemory(canon_file, "ok").present) =>
      \A k \in UpdatableFields, x \in UpdateValues :
          LET r == UpdateCanonMemory(canon_file, k :> x, ADMIN_READY, now, "ok")
              got == GetCanonMemory(r.file, "ok")
          IN (r.result = TRUE /\ FieldValid(k, x) /\ FieldCoerce(k, x) = x) =>
                (got.present /\ got.value[k] = x)

-----------------------------------------------------------------------------
(* Claims about the session store, checked under SpecSession *)

\* C1: within one process and with no clear in between, after N appends to a
\* session that had no earlier log, get returns exactly those N messages in
\* the order they were appended (whatever the backend does during the get).
C1_GetReturnsAppended ==
    \A s \in SessionIds :
        hist[s].tracked =>
            \A io \in ReadIo :
                LET r == GetSessionHistory(storage_type, sessions, session_store, s, io)
                IN ~r.raised /\ r.value = hist[s].log

\* C1 witness: two different messages were appended and a get returned them
C1_Witness ==
    /\ last.op = "get" /\ ~last.raised
    /\ hist[last.sid].tracked
    /\ Len(hist[last.sid].log) = 2
    /\ hist[last.sid].log[1] # hist[last.sid].log[2]
    /\ last.value = hist[last.sid].log

\* C2: once clear has completed, get returns the empty sequence, in the same
\* process (the cache as it is) and in a fresh process (an empty cache that
\* reloads from the durable backend).
C2_ClearThenGetEmpty ==
    (last.op = "clear" /\ ~last.raised) =>
        \A cache \in {sessions, <<>>}, io \in ReadIo :
            LET r == GetSessionHistory(storage_type, cache, session_store, last.sid, io)
            IN r.value = <<>> /\ (io = "ok" => ~r.raised)

\* C2 witness: a clear completed on a session that was cached and persisted
C2_Witness ==
    /\ last.op = "clear" /\ ~last.raised /\ last.had_log
    /\ session_store[last.sid] = Absent

\* what C33 says of a fresh process (cache) that appends one message to a
\* session with a persisted log: get returns the persisted messages followed
\* by the new one, and the durable log holds the same
C33_AllKept(cache, s, role, content) ==
    LET persisted == MessagesFromData(session_store[s].data)
        r == AddMessageToSession(storage_type, cache, session_store, s, role,
                                 content, now, "ok")
        g == GetSessionHistory(storage_type, r.sessions, r.store, s, "ok")
        expected == Append(persisted, Message(role, content, UtcNow(now)))
    IN /\ g.value = expected
       /\ r.store[s] = Data(MessagesData(expected))

\* C33: if a session has k messages persisted and a fresh process with an
\* empty cache appends one more message to it without a get first, then get
\* returns all k + 1 messages in order and the durable log holds all k + 1.
C33_HistorySurvivesRestart ==
    up =>
      \A s \in SessionIds, role \in MessageRole, content \in Contents :
          (session_store[s].kind = "data" /\ Len(session_store[s].data) >= 1) =>
              C33_AllKept(<<>>, s, role, content)

\* C33 for a fresh process that calls get before it appends
C33_AfterGet ==
    up =>
      \A s \in SessionIds, role \in MessageRole, content \in Contents :
          (session_store[s].kind = "data" /\ Len(session_store[s].data) >= 1) =>
              C33_AllKept(GetSessionHistory(storage_type, <<>>, session_store, s,
                                            "ok").sessions,
                          s, role, content)

\* C26: under the file backend, for a session persisted by append, a fresh
\* process with an empty cache that calls get obtains the same sequence of
\* messages (role, content, timestamp, order) as the writer held in its cache.
C26_FileLayoutRoundTrips ==
    (up /\ storage_type = "file") =>
      \A s \in SessionIds, role \in MessageRole, content \in Contents :
          LET r == AddMessageToSession("file", sessions, session_store, s,
                                       role, content, now, "ok")
              g == GetSessionHistory("file", <<>>, r.store, s, "ok")
          IN ~r.raised /\ ~g.raised /\ g.value = r.sessions[s]

\* C26 witness: a fresh process has read back two messages, one of them
\* stamped with a fraction of a second
C26_Witness ==
    /\ storage_type = "file"
    /\ last.op = "get" /\ ~last.raised /\ Len(last.value) = 2
    /\ \E i \in 1..2 : last.value[i].timestamp.microsecond # 0
    /\ \E s \in SessionIds :
          /\ hist[s] = Untracked
          /\ s \in DOMAIN sessions /\ sessions[s] = last.value
          /\ session_store[s] = Data(MessagesData(last.value))

\* C28: under the key-value backend, once the TTL of a session has expired
\* with no append in between, get for that session returns the empty sequence.
C28_ExpiredSessionReadsEmpty ==
    [][\A s \in SessionIds :
          (/\ storage_type = "redis" /\ up
           /\ session_store[s] # Absent /\ session_store'[s] = Absent
           /\ last'.op = "none")
          => GetSessionHistory("redis", sessions', session_store', s, "ok").value = <<>>]_vars

\* C28 for a process that does not hold the session in its cache: after the
\* expiry its get returns the empty sequence
C28_FreshProcessReadsEmpty ==
    [][\A s \in SessionIds :
          (/\ storage_type = "redis" /\ up
           /\ session_store[s] # Absent /\ session_store'[s] = Absent
           /\ last'.op = "none")
          => GetSessionHistory("redis", <<>>, session_store', s, "ok").value = <<>>]_vars

\* C19: when the durable backend fails while get loads a session that is not
\* cached, under either backend, get returns the empty sequence and raises
\* nothing.
C19_ReadFailureGivesEmpty ==
    up =>
      \A s \in SessionIds \ DOMAIN sessions :
          LET r == GetSessionHistory(storage_type, sessions, session_store, s, "read_fails")
          IN ~r.raised /\ r.value = <<>>

\* C19 under the file backend alone (holds): every failure after the
\* existence test is caught
C19_FileBackend ==
    storage_type = "file" => C19_ReadFailureGivesEmpty

\* C20: when the durable write fails during append, the message is in the
\* cache, so a later get in the same process returns it last in order, and
\* append itself does not raise.
C20_WriteFailureIsDegraded ==
    up =>
      \A s \in SessionIds, role \in MessageRole, content \in Contents,
         io \in IoOf(storage_type) \ {"ok"} :
          LET r == AddMessageToSession(storage_type, sessions, session_store, s,
                                       role, content, now, io)
              g == GetSessionHistory(storage_type, r.sessions, r.store, s, "ok")
          IN /\ g.value # <<>>
             /\ g.value[Len(g.value)] = Message(role, content, UtcNow(now))
             /\ ~r.raised

\* the first half of C20 (holds): the message is in the cache after the
\* failed write and get returns it
C20_MessageKept ==
    up =>
      \A s \in SessionIds, role \in MessageRole, content \in Contents,
         io \in IoOf(storage_type) \ {"ok"} :
          LET r == AddMessageToSession(storage_type, sessions, session_store, s,
                                       role, content, now, io)
              g == GetSessionHistory(storage_type, r.sessions, r.store, s, "ok")
          IN g.value # <<>> /\ g.value[Len(g.value)] = Message(role, content, UtcNow(now))

-----------------------------------------------------------------------------
(* Claims about concurrent appends, checked under SpecSessionRace *)

\* C22: once two concurrent append calls on one session have both completed,
\* the cache log and the durable log each contain both messages, in the same
\* order as each other.
C22_ConcurrentAppendsBothKept ==
    \A s \in SessionIds :
        (last.op = "race_append" /\ last.sid = s /\ last.overlapped /\ AllIdle) =>
            /\ session_store[s].kind = "data"
            /\ MessagesFromData(session_store[s].data) = sessions[s]
            /\ MessagesFromData(session_store[s].data) = peer_sessions[s]
            /\ \A w \in Workers :
                  \E i \in 1..Len(sessions[s]) : sessions[s][i].content = WorkerContent(w)

====
